---- MODULE Spec2Model ----
(***************************************************************************)
(* NeoLink: the intent router and the per-user session store of the        *)
(* WhatsApp DeFi agents (IntelligentDeFiAgent, SimpleDeFiAgent,            *)
(* DeFiSpoonAgent, NeoLinkSpoonAgent).                                     *)
(*                                                                         *)
(* Messages, addresses and replies are TLA+ strings; the Python string     *)
(* operations the agents use (strip, lower, `in`, startswith, slices,      *)
(* re.match / re.search of the two patterns) are operators over them.      *)
(* Reply texts keep their headline and every interpolated field; emoji and *)
(* the long static tails are left out.                                     *)
(***************************************************************************)
EXTENDS Integers, Sequences, FiniteSets, TLC

VARIABLES
    agent,          \* the agent class this process serves requests with
    USER_WALLETS,   \* the module-level dict: user_phone -> {wallet_address, created_at}
    now,            \* the clock read by datetime.now(): calls served so far
    last,           \* observation of the last call: its arguments, result and provider calls
    recent,         \* observation: per user, the argument of the latest save that reported success
    defi_agent,     \* the module-level defi_agent of the webhook server: None or an agent instance
    requests        \* the webhook requests received so far, each with its thread's position

vars == <<agent, USER_WALLETS, now, last, recent, defi_agent, requests>>

----------------------------------------------------------------------------
(* Python str operations *)

Min(a, b) == IF a < b THEN a ELSE b

Max(a, b) == IF a > b THEN a ELSE b

\* s[i-1]
Char(s, i) == SubSeq(s, i, i)

\* s[:n]
Prefix(s, n) == SubSeq(s, 1, Min(n, Len(s)))

\* s[-n:]
Suffix(s, n) == SubSeq(s, Max(1, Len(s) - n + 1), Len(s))

\* s.startswith(p)
StartsWith(s, p) == Len(s) >= Len(p) /\ SubSeq(s, 1, Len(p)) = p

\* needle in hay
Contains(needle, hay) ==
    \E i \in 1..(Len(hay) - Len(needle) + 1) : SubSeq(hay, i, i + Len(needle) - 1) = needle

\* any(word in s for word in words)
ContainsAny(words, s) == \E k \in 1..Len(words) : Contains(words[k], s)

Whitespace == {" ", "\t", "\n", "\r"}

RECURSIVE LStrip(_)
LStrip(s) ==
    IF Len(s) > 0 /\ Char(s, 1) \in Whitespace THEN LStrip(SubSeq(s, 2, Len(s))) ELSE s

RECURSIVE RStrip(_)
RStrip(s) ==
    IF Len(s) > 0 /\ Char(s, Len(s)) \in Whitespace THEN RStrip(SubSeq(s, 1, Len(s) - 1)) ELSE s

\* s.strip()
Strip(s) == RStrip(LStrip(s))

UpperLetters == "ABCDEFGHIJKLMNOPQRSTUVWXYZ"

LowerLetters == "abcdefghijklmnopqrstuvwxyz"

LowerChar(c) ==
    IF \E i \in 1..Len(UpperLetters) : Char(UpperLetters, i) = c
    THEN Char(LowerLetters, CHOOSE i \in 1..Len(UpperLetters) : Char(UpperLetters, i) = c)
    ELSE c

UpperChar(c) ==
    IF \E i \in 1..Len(LowerLetters) : Char(LowerLetters, i) = c
    THEN Char(UpperLetters, CHOOSE i \in 1..Len(LowerLetters) : Char(LowerLetters, i) = c)
    ELSE c

RECURSIVE Lower(_)
\* s.lower()
Lower(s) == IF Len(s) = 0 THEN "" ELSE LowerChar(Char(s, 1)) \o Lower(SubSeq(s, 2, Len(s)))

RECURSIVE Upper(_)
\* s.upper()
Upper(s) == IF Len(s) = 0 THEN "" ELSE UpperChar(Char(s, 1)) \o Upper(SubSeq(s, 2, Len(s)))

Digits == "0123456789"

IsDigit(c) == \E i \in 1..Len(Digits) : Char(Digits, i) = c

HexDigits == "0123456789abcdefABCDEF"

\* [a-fA-F0-9]
IsHex(c) == \E i \in 1..Len(HexDigits) : Char(HexDigits, i) = c

AllHex(s) == \A i \in 1..Len(s) : IsHex(Char(s, i))

----------------------------------------------------------------------------
(* Python values *)

\* None: no wallet is saved / no text was returned.  No 42-character address
\* and no reply text of the agents equals it.
None == "<None>"

\* dict.get(key, default)
\* A JSON array read by json(): a list
JsonList == "<list>"

\* Whether a returned value is a str
IsText(value) == value \notin {None, JsonList}

DictGet(d, key, default) == IF key \in DOMAIN d THEN d[key] ELSE default

\* d[key] = value
DictSet(d, key, value) == [k \in DOMAIN d \cup {key} |-> IF k = key THEN value ELSE d[k]]

EmptyDict == [k \in {} |-> None]

----------------------------------------------------------------------------
(* The two address patterns *)

\* {40} of both patterns
AddrHexLen == 40

\* len(wallet_address) != 42 of save_user_wallet
AddrLen == 42

\* re.match(r'^0x[a-fA-F0-9]{40}$', s): '$' also matches just before one
\* trailing newline.
MatchWalletPattern(s) ==
    /\ Len(s) \in {2 + AddrHexLen, 2 + AddrHexLen + 1}
    /\ SubSeq(s, 1, 2) = "0x"
    /\ AllHex(SubSeq(s, 3, 2 + AddrHexLen))
    /\ Len(s) = 2 + AddrHexLen + 1 => Char(s, Len(s)) = "\n"

\* 0x[a-fA-F0-9]{40} matches s at position i
AddressAt(s, i) ==
    /\ i + 1 + AddrHexLen <= Len(s)
    /\ SubSeq(s, i, i + 1) = "0x"
    /\ AllHex(SubSeq(s, i + 2, i + 1 + AddrHexLen))

\* re.search(r'(0x[a-fA-F0-9]{40})', s): the leftmost match, None without one.
SearchAddress(s) ==
    IF \E i \in 1..Len(s) : AddressAt(s, i)
    THEN LET i == CHOOSE k \in 1..Len(s) : AddressAt(s, k) /\ \A j \in 1..(k - 1) : ~AddressAt(s, j)
         IN  SubSeq(s, i, i + 1 + AddrHexLen)
    ELSE None

RECURSIVE DigitRunEnd(_, _)
\* The last index of the run of digits of s that starts at i (i - 1: no digit at i).
DigitRunEnd(s, i) ==
    IF i <= Len(s) /\ IsDigit(Char(s, i)) THEN DigitRunEnd(s, i + 1) ELSE i - 1

\* The 0 that begins an address is not taken for a number.
SearchAmount_not_in_address(s) ==
    IF \E i \in 1..Len(s) : IsDigit(Char(s, i)) /\ ~AddressAt(s, i)
    THEN LET i == CHOOSE k \in 1..Len(s) :
                      /\ IsDigit(Char(s, k)) /\ ~AddressAt(s, k)
                      /\ \A j \in 1..(k - 1) : ~(IsDigit(Char(s, j)) /\ ~AddressAt(s, j))
             j == DigitRunEnd(s, i)
             k == IF j < Len(s) /\ Char(s, j + 1) = "." THEN DigitRunEnd(s, j + 2) ELSE j
         IN  IF i > 1 /\ AddressAt(s, i - 1) THEN None ELSE SubSeq(s, i, k)
    ELSE None

\* re.search(r'(\d+\.?\d*)', s): the leftmost match, greedy; None without one.
SearchAmount(s) ==
    IF \E i \in 1..Len(s) : IsDigit(Char(s, i))
    THEN LET i == CHOOSE k \in 1..Len(s) :
                      IsDigit(Char(s, k)) /\ \A j \in 1..(k - 1) : ~IsDigit(Char(s, j))
             j == DigitRunEnd(s, i)
             k == IF j < Len(s) /\ Char(s, j + 1) = "." THEN DigitRunEnd(s, j + 2) ELSE j
         IN  SubSeq(s, i, k)
    ELSE None

----------------------------------------------------------------------------
(* IntelligentDeFiAgent: the intent table and the classifier *)

\* The keys of intent_patterns, in insertion order.
IntentOrder ==
    <<"wallet_address", "balance_check", "price_check", "transfer", "defi_info",
      "gas_fees", "help", "greeting", "thanks">>

\* config['keywords'] (an intent without the key: the empty list)
Keywords(intent) ==
    CASE intent = "balance_check" ->
           <<"balance", "check", "how much", "amount", "funds", "money",
             "wallet", "account", "holdings", "assets", "portfolio",
             "show me", "tell me", "what do i have", "my tokens",
             "eth balance", "usdc balance", "token balance">>
      [] intent = "price_check" ->
           <<"price", "cost", "value", "worth", "rate", "exchange rate",
             "how much is", "current price", "market price", "trading at",
             "quote", "valuation", "market cap", "usd", "dollar">>
      [] intent = "transfer" ->
           <<"send", "transfer", "pay", "move", "swap", "exchange",
             "give", "donate", "tip", "remit", "wire", "transmit",
             "forward", "dispatch", "deliver", "convey">>
      [] intent = "defi_info" ->
           <<"defi", "decentralized finance", "what is", "explain",
             "learn", "understand", "how does", "tell me about",
             "uniswap", "aave", "compound", "makerdao", "curve",
             "yield farming", "liquidity", "staking", "lending",
             "borrowing", "dex", "amm", "smart contract">>
      [] intent = "gas_fees" ->
           <<"gas", "fee", "fees", "cost", "expensive", "cheap",
             "transaction cost", "network fee", "gwei", "gas price",
             "how much to send", "transaction fee">>
      [] intent = "help" ->
           <<"help", "start", "hello", "hi", "hey", "commands",
             "what can you do", "how to use", "guide", "tutorial",
             "instructions", "menu", "options", "features">>
      [] intent = "greeting" ->
           <<"hello", "hi", "hey", "good morning", "good afternoon",
             "good evening", "greetings", "howdy", "sup", "yo">>
      [] intent = "thanks" ->
           <<"thank", "thanks", "thx", "appreciate", "grateful",
             "awesome", "great", "perfect", "excellent", "good job">>
      [] OTHER -> <<>>

\* config['tokens'] (an intent without the key: the empty list)
Tokens(intent) ==
    IF intent \in {"balance_check", "price_check"}
    THEN <<"eth", "ethereum", "usdc", "usdt", "dai", "bitcoin", "btc">>
    ELSE <<>>

\* token_mapping.get(token.lower(), token.upper())
TokenSymbol(token) ==
    LET t == Lower(token)
    IN  CASE t = "ethereum" -> "ETH"
          [] t = "bitcoin" -> "BTC"
          [] t = "btc" -> "BTC"
          [] t = "eth" -> "ETH"
          [] t = "usdc" -> "USDC"
          [] t = "usdt" -> "USDT"
          [] t = "dai" -> "DAI"
          [] OTHER -> Upper(token)

\* A check of the prefix and the length only.
is_wallet_address_prefix_and_length(message) ==
    StartsWith(Strip(message), "0x") /\ Len(Strip(message)) = AddrLen

is_wallet_address(message) == MatchWalletPattern(Strip(message))

\* A contained token counts as much as a contained keyword.
IntentScore_alias_once(intent, message_lower) ==
    Cardinality({k \in 1..Len(Keywords(intent)) : Contains(Keywords(intent)[k], message_lower)})
    + Cardinality({k \in 1..Len(Tokens(intent)) : Contains(Tokens(intent)[k], message_lower)})

\* The score the loop accumulates for one intent: +1 for each keyword and +2
\* for each token of the intent contained in message_lower.
IntentScore(intent, message_lower) ==
    Cardinality({k \in 1..Len(Keywords(intent)) : Contains(Keywords(intent)[k], message_lower)})
    + 2 * Cardinality({k \in 1..Len(Tokens(intent)) : Contains(Tokens(intent)[k], message_lower)})

\* extracted_data['token'] after the loop: every contained token of every
\* intent overwrites it in turn, so the last contained token of the last
\* intent with tokens stays.
ExtractedToken(message_lower) ==
    LET hits == UNION {{<<n, k>> : k \in {j \in 1..Len(Tokens(IntentOrder[n])) :
                                             Contains(Tokens(IntentOrder[n])[j], message_lower)}} :
                       n \in 1..Len(IntentOrder)}
    IN  IF hits = {} THEN None
        ELSE LET h == CHOOSE x \in hits :
                          \A y \in hits : y[1] < x[1] \/ (y[1] = x[1] /\ y[2] <= x[2])
             IN  TokenSymbol(Tokens(IntentOrder[h[1]])[h[2]])

\* A message in which nothing scores is given the help intent.
BestIntent_help_default(message_lower) ==
    LET intent_scores == [n \in 1..Len(IntentOrder) |-> IntentScore(IntentOrder[n], message_lower)]
        scored == {n \in 1..Len(IntentOrder) : intent_scores[n] > 0}
        best == CHOOSE n \in scored :
                    \A o \in scored :
                        \/ intent_scores[o] < intent_scores[n]
                        \/ intent_scores[o] = intent_scores[n] /\ n <= o
    IN  IF scored = {} THEN "help" ELSE IntentOrder[best]

\* Of the keys of the greatest score the last one, in insertion order, wins.
BestIntent_last_max(message_lower) ==
    LET intent_scores == [n \in 1..Len(IntentOrder) |-> IntentScore(IntentOrder[n], message_lower)]
        scored == {n \in 1..Len(IntentOrder) : intent_scores[n] > 0}
        best == CHOOSE n \in scored :
                    \A o \in scored :
                        \/ intent_scores[o] < intent_scores[n]
                        \/ intent_scores[o] = intent_scores[n] /\ n >= o
    IN  IF scored = {} THEN "general" ELSE IntentOrder[best]

\* max(intent_scores, key=intent_scores.get): the first key, in insertion
\* order, of the greatest score.
BestIntent(message_lower) ==
    LET intent_scores == [n \in 1..Len(IntentOrder) |-> IntentScore(IntentOrder[n], message_lower)]
        scored == {n \in 1..Len(IntentOrder) : intent_scores[n] > 0}
        best == CHOOSE n \in scored :
                    \A o \in scored :
                        \/ intent_scores[o] < intent_scores[n]
                        \/ intent_scores[o] = intent_scores[n] /\ n <= o
    IN  IF scored = {} THEN "general" ELSE IntentOrder[best]

\* The entries of a dict built from optional values: those that are not None.
DictOf(token, amount, recipient) ==
    LET all == [k \in {"token", "amount", "recipient"} |->
                   CASE k = "token" -> token [] k = "amount" -> amount [] OTHER -> recipient]
    IN  [k \in {x \in DOMAIN all : all[x] # None} |-> all[k]]

\* The keyword scores decide first; the address pattern is tried only when
\* nothing scores.
extract_intent_scores_first(message) ==
    LET message_lower == Strip(Lower(message))
        intent == BestIntent(message_lower)
    IN  IF intent # "general"
        THEN [intent |-> intent,
              data |-> DictOf(ExtractedToken(message_lower), SearchAmount(message),
                              SearchAddress(message))]
        ELSE IF is_wallet_address(message)
        THEN [intent |-> "wallet_address", data |-> [k \in {"address"} |-> Strip(message)]]
        ELSE [intent |-> "general", data |-> EmptyDict]

\* The address entity is the message as received, not trimmed.
extract_intent_untrimmed(message) ==
    LET message_lower == Strip(Lower(message))
        intent == BestIntent(message_lower)
    IN  IF is_wallet_address(message)
        THEN [intent |-> "wallet_address", data |-> [k \in {"address"} |-> message]]
        ELSE IF intent = "general"
        THEN [intent |-> "general", data |-> EmptyDict]
        ELSE [intent |-> intent,
              data |-> DictOf(ExtractedToken(message_lower), SearchAmount(message),
                              SearchAddress(message))]

\* The entities found in the message are returned with the general intent too.
extract_intent_keeps_entities(message) ==
    LET message_lower == Strip(Lower(message))
        intent == BestIntent(message_lower)
    IN  IF is_wallet_address(message)
        THEN [intent |-> "wallet_address", data |-> [k \in {"address"} |-> Strip(message)]]
        ELSE [intent |-> intent,
              data |-> DictOf(ExtractedToken(message_lower), SearchAmount(message),
                              SearchAddress(message))]

extract_intent(message) ==
    LET message_lower == Strip(Lower(message))
        intent == BestIntent(message_lower)
    IN  IF is_wallet_address(message)
        THEN [intent |-> "wallet_address", data |-> [k \in {"address"} |-> Strip(message)]]
        ELSE IF intent = "general"
        THEN [intent |-> "general", data |-> EmptyDict]
        ELSE [intent |-> intent,
              data |-> DictOf(ExtractedToken(message_lower), SearchAmount(message),
                              SearchAddress(message))]

----------------------------------------------------------------------------
(* IntelligentDeFiAgent: the session store *)

InvalidFormatText ==
    "Invalid wallet address format. Please provide a valid Ethereum address starting with 0x"

WalletSavedText == "Wallet address saved successfully!"

\* The address is lower-cased before it is stored.
save_user_wallet_lowercased(wallets, user_phone, wallet_address, t) ==
    IF ~StartsWith(wallet_address, "0x") \/ Len(wallet_address) # AddrLen
    THEN [reply |-> InvalidFormatText, wallets |-> wallets]
    ELSE [reply |-> WalletSavedText,
          wallets |-> DictSet(wallets, user_phone,
                              [wallet_address |-> Lower(wallet_address), created_at |-> t])]

\* The length is not checked.
save_user_wallet_prefix_only(wallets, user_phone, wallet_address, t) ==
    IF ~StartsWith(wallet_address, "0x")
    THEN [reply |-> InvalidFormatText, wallets |-> wallets]
    ELSE [reply |-> WalletSavedText,
          wallets |-> DictSet(wallets, user_phone,
                              [wallet_address |-> wallet_address, created_at |-> t])]

\* An entry that exists is kept: the first save wins.
save_user_wallet_keep_existing(wallets, user_phone, wallet_address, t) ==
    IF ~StartsWith(wallet_address, "0x") \/ Len(wallet_address) # AddrLen
    THEN [reply |-> InvalidFormatText, wallets |-> wallets]
    ELSE [reply |-> WalletSavedText,
          wallets |-> IF user_phone \in DOMAIN wallets THEN wallets
                      ELSE DictSet(wallets, user_phone,
                                   [wallet_address |-> wallet_address, created_at |-> t])]

\* The dict is replaced by one that holds the saved entry only.
save_user_wallet_single_slot(wallets, user_phone, wallet_address, t) ==
    IF ~StartsWith(wallet_address, "0x") \/ Len(wallet_address) # AddrLen
    THEN [reply |-> InvalidFormatText, wallets |-> wallets]
    ELSE [reply |-> WalletSavedText,
          wallets |-> [k \in {user_phone} |->
                          [wallet_address |-> wallet_address, created_at |-> t]]]

\* The entry is stored under the key of every user who has one, too.
save_user_wallet_every_key(wallets, user_phone, wallet_address, t) ==
    IF ~StartsWith(wallet_address, "0x") \/ Len(wallet_address) # AddrLen
    THEN [reply |-> InvalidFormatText, wallets |-> wallets]
    ELSE [reply |-> WalletSavedText,
          wallets |-> [k \in DOMAIN wallets \cup {user_phone} |->
                          [wallet_address |-> wallet_address, created_at |-> t]]]

\* save_user_wallet of IntelligentDeFiAgent and of SimpleDeFiAgent (the same
\* statements): the reply and the dict after the call at time t.
save_user_wallet(wallets, user_phone, wallet_address, t) ==
    IF ~StartsWith(wallet_address, "0x") \/ Len(wallet_address) # AddrLen
    THEN [reply |-> InvalidFormatText, wallets |-> wallets]
    ELSE [reply |-> WalletSavedText,
          wallets |-> DictSet(wallets, user_phone,
                              [wallet_address |-> wallet_address, created_at |-> t])]

\* The key is ignored: any saved entry answers.
get_user_wallet_any_key(wallets, user_phone) ==
    IF DOMAIN wallets # {}
    THEN wallets[CHOOSE k \in DOMAIN wallets : TRUE].wallet_address
    ELSE None

get_user_wallet(wallets, user_phone) ==
    IF user_phone \in DOMAIN wallets THEN wallets[user_phone].wallet_address ELSE None

----------------------------------------------------------------------------
(* NeoLinkSpoonAgent: the session store (its own USER_WALLETS, the same        *)
(* statements, other reply texts)                                           *)

NeoLinkInvalidFormatText ==
    "Hmm, that doesn't look like a valid Ethereum wallet address to me! I need an address that starts with '0x' and has 42 characters total."

NeoLinkWalletSavedText == "Perfect! I've got your wallet saved now!"

neolink_save_user_wallet(wallets, user_phone, wallet_address, t) ==
    IF ~StartsWith(wallet_address, "0x") \/ Len(wallet_address) # AddrLen
    THEN [reply |-> NeoLinkInvalidFormatText, wallets |-> wallets]
    ELSE [reply |-> NeoLinkWalletSavedText \o " Your address: " \o Prefix(wallet_address, 10)
                    \o "..." \o Suffix(wallet_address, 6),
          wallets |-> DictSet(wallets, user_phone,
                              [wallet_address |-> wallet_address, created_at |-> t])]

----------------------------------------------------------------------------
(* DeFiSpoonAgent: the session store, which validates and normalises with   *)
(* web3                                                                     *)

\* str.islower(), str.isupper(): a cased character exists and all cased
\* characters are lower (upper) case.
IsLower(s) == Lower(s) = s /\ Upper(s) # s

IsUpper(s) == Upper(s) = s /\ Lower(s) # s

\* The EIP-55 forms of the addresses of the model: each letter is upper case
\* where the Keccak-256 digest of the lower-case hex digits has a nibble of 8
\* or more (digests computed outside the model).
Eip55 ==
    ("0x742d35cc6634c0532925a3b8d4c9db96c4b4d8e8" :> "0x742d35cc6634c0532925a3b8d4c9db96c4B4D8e8")
    @@ ("0x1234567890123456789012345678901234567890" :> "0x1234567890123456789012345678901234567890")
    @@ ("0xfee0000000000000000000000000000000000ada" :> "0xFee0000000000000000000000000000000000ADa")

\* remove_0x_prefix(value)
Unprefixed(value) ==
    IF Lower(Prefix(value, 2)) = "0x" THEN SubSeq(value, 3, Len(value)) ELSE value

\* A hex address as eth_utils reads it: 40 hex digits after an optional 0x / 0X.
IsHexAddress(value) == Len(Unprefixed(value)) = AddrHexLen /\ AllHex(Unprefixed(value))

\* w3.to_checksum_address(value), for a hex address: 0x and the EIP-55 form of
\* the lower-cased digits
to_checksum_address(value) == Eip55["0x" \o Lower(Unprefixed(value))]

\* w3.is_address(value): a hex address; one with letters of both cases must
\* be its own EIP-55 form.
is_address(value) ==
    /\ IsHexAddress(value)
    /\ LET digits == Unprefixed(value)
       IN  (~IsLower(digits) /\ ~IsUpper(digits) /\ Lower(digits) # Upper(digits))
               => value = to_checksum_address(value)

SpoonInvalidFormatText ==
    "Invalid wallet address format. Please provide a valid Ethereum address starting with 0x"

_save_user_wallet(wallets, user_phone, wallet_address, t) ==
    IF ~is_address(wallet_address)
    THEN [reply |-> SpoonInvalidFormatText, wallets |-> wallets]
    ELSE [reply |-> WalletSavedText,
          wallets |-> DictSet(wallets, user_phone,
                              [wallet_address |-> to_checksum_address(wallet_address),
                               created_at |-> t])]

----------------------------------------------------------------------------
(* IntelligentDeFiAgent: the handlers *)

MockBalances == ("ETH" :> "2.847291") @@ ("USDC" :> "1,847.32") @@ ("USDT" :> "892.15")
                @@ ("DAI" :> "456.78") @@ ("BTC" :> "0.0234")

MockUsdValues == ("ETH" :> "$6,890.45") @@ ("USDC" :> "$1,847.32") @@ ("USDT" :> "$892.15")
                 @@ ("DAI" :> "$456.78") @@ ("BTC" :> "$1,456.78")

\* The reply shows the whole address.
check_balance_full_address(wallet_address, token_symbol) ==
    "**" \o token_symbol \o " Balance** Amount: " \o DictGet(MockBalances, token_symbol, "0.00")
    \o " " \o token_symbol \o " Value: ~" \o DictGet(MockUsdValues, token_symbol, "$0.00")
    \o " Wallet: " \o wallet_address \o " *Data is simulated for demo*"

check_balance(wallet_address, token_symbol) ==
    "**" \o token_symbol \o " Balance** Amount: " \o DictGet(MockBalances, token_symbol, "0.00")
    \o " " \o token_symbol \o " Value: ~" \o DictGet(MockUsdValues, token_symbol, "$0.00")
    \o " Wallet: " \o Prefix(wallet_address, 10) \o "..." \o Suffix(wallet_address, 4)
    \o " *Data is simulated for demo*"

MockPrices ==
    ("ETH" :> [price |-> "$2,420.85", change |-> "+2.4%", change_24h |-> "+$56.32"])
    @@ ("USDC" :> [price |-> "$1.00", change |-> "0.0%", change_24h |-> "$0.00"])
    @@ ("USDT" :> [price |-> "$1.00", change |-> "-0.1%", change_24h |-> "-$0.001"])
    @@ ("DAI" :> [price |-> "$1.00", change |-> "+0.1%", change_24h |-> "+$0.001"])
    @@ ("BTC" :> [price |-> "$62,340.12", change |-> "+1.8%", change_24h |-> "+$1,098.45"])

get_token_price(token_symbol) ==
    IF token_symbol \notin DOMAIN MockPrices
    THEN "Price data not available for " \o token_symbol \o ". Try ETH, BTC, USDC, USDT, or DAI."
    ELSE "**" \o token_symbol \o " Price** Current: " \o MockPrices[token_symbol].price
         \o " 24h Change: " \o MockPrices[token_symbol].change
         \o " (" \o MockPrices[token_symbol].change_24h \o ") *Live market data*"

get_gas_info ==
    "**Current Gas Fees** Standard: ~15 Gwei ($2.50) Fast: ~25 Gwei ($4.20) Instant: ~35 Gwei ($5.80)"

get_defi_info(query) ==
    LET query_lower == Lower(query)
    IN  IF ContainsAny(<<"uniswap", "dex", "swap">>, query_lower)
        THEN "**Uniswap & DEXs** Decentralized exchanges let you trade tokens directly from your wallet"
        ELSE IF ContainsAny(<<"yield", "farming", "staking">>, query_lower)
        THEN "**Yield Farming & Staking** Earn rewards by providing liquidity or staking tokens."
        ELSE IF ContainsAny(<<"lending", "borrowing", "aave", "compound">>, query_lower)
        THEN "**DeFi Lending & Borrowing** Lend your crypto to earn interest or borrow against collateral."
        ELSE "**DeFi (Decentralized Finance)** Financial services built on blockchain without traditional banks."

\* What the chat-completion request of get_ai_response can end in.
LLMOutcomes ==
    {"request_raises",      \* requests.post raises: connection error, timeout
     "status_not_200",
     "json_raises",         \* response.json() raises: the body is not JSON
     "keys_missing",        \* result['choices'][0]['message']['content'] raises
     "content_text",        \* the content is a string
     "content_null",        \* the content is JSON null
     "content_list"}        \* the content is a JSON array

LLMContentText == "Smart contracts are programs stored on a blockchain."

AiTroubleText == "I'm having trouble processing that right now. Please try again!"

AiDifficultiesText == "I'm having some technical difficulties. Please try again later!"

\* get_ai_response: the request is made with message and context; llm is what
\* the provider answers.
get_ai_response(message, context, llm) ==
    CASE llm = "status_not_200" -> AiTroubleText
      [] llm = "content_text" -> LLMContentText
      [] llm = "content_null" -> None
      [] llm = "content_list" -> JsonList
      [] OTHER -> AiDifficultiesText

NoWalletBalanceText ==
    "I don't have your wallet address yet! Please send me your Ethereum wallet address (starts with 0x) to check balances."

NoWalletTransferText ==
    "I don't have your wallet address yet! Please send me your Ethereum wallet address (starts with 0x) to help with transfers."

TransferDisclaimer ==
    "**Security Note:** I only help prepare transfers. Always: Execute in your secure wallet app"

TransferPreview(user_wallet, amount, recipient, token) ==
    "**Transfer Preparation** From: " \o Prefix(user_wallet, 10) \o "..." \o Suffix(user_wallet, 4)
    \o " To: "
    \o (IF recipient # "unspecified"
        THEN Prefix(recipient, 10) \o "..." \o Suffix(recipient, 4)
        ELSE "Please specify recipient")
    \o " Amount: " \o amount \o " " \o token \o " " \o TransferDisclaimer

\* The help text shows the saved address.
HelpText_shows_wallet(user_wallet) ==
    "**DeFi Assistant Help** **Wallet Status:** "
    \o (IF user_wallet # None THEN "Connected: " \o user_wallet ELSE "Not connected")
    \o " **What I can do:** Check token balances"

HelpText(user_wallet) ==
    "**DeFi Assistant Help** **Wallet Status:** "
    \o (IF user_wallet # None THEN "Connected" ELSE "Not connected")
    \o " **What I can do:** Check token balances"

GreetingText(user_wallet) ==
    "Hello! I'm your DeFi assistant! "
    \o (IF user_wallet # None
        THEN "Ready to help with your wallet: " \o Prefix(user_wallet, 10) \o "..."
             \o Suffix(user_wallet, 4)
        ELSE "Send me your wallet address to get started!")
    \o " What would you like to know?"

ThanksText == "You're welcome! Happy to help with your DeFi journey!"

AiContext(user_wallet) ==
    "User has wallet: "
    \o (IF user_wallet # None
        THEN Prefix(user_wallet, 10) \o "..." \o Suffix(user_wallet, 4)
        ELSE "No wallet saved")

----------------------------------------------------------------------------
(* Python number formatting.  A float the providers return is an integer    *)
(* count of a decimal unit: prices are in units of 10^-4 dollar, 24h         *)
(* changes in units of 10^-2 percent, balances in units of 10^-1 token.      *)

RECURSIVE NatToStr(_)
\* str(n) for n >= 0
NatToStr(n) ==
    IF n < 10 THEN Char(Digits, n + 1) ELSE NatToStr(n \div 10) \o Char(Digits, (n % 10) + 1)

RECURSIVE Pow10(_)
Pow10(k) == IF k = 0 THEN 1 ELSE 10 * Pow10(k - 1)

RECURSIVE ZeroPad(_, _)
\* s.zfill(width)
ZeroPad(s, width) == IF Len(s) >= width THEN s ELSE ZeroPad("0" \o s, width)

RECURSIVE Grouped(_)
\* the ',' option of the format mini-language on a digit string
Grouped(s) ==
    IF Len(s) <= 3 THEN s
    ELSE Grouped(SubSeq(s, 1, Len(s) - 3)) \o "," \o SubSeq(s, Len(s) - 2, Len(s))

\* f"{x:.<want>f}" (grouping: f"{x:,.<want>f}") of x = n * 10^-have, n >= 0,
\* rounded to the nearest unit of 10^-want
FormatFixed(n, have, want, grouping) ==
    LET m == IF want >= have THEN n * Pow10(want - have)
             ELSE (n + (Pow10(have - want) \div 2)) \div Pow10(have - want)
        whole == NatToStr(m \div Pow10(want))
    IN  (IF grouping THEN Grouped(whole) ELSE whole)
        \o "." \o ZeroPad(NatToStr(m % Pow10(want)), want)

\* f"{x:+.2f}" of x = c * 10^-2
FormatSigned(c) ==
    IF c < 0 THEN "-" \o FormatFixed(0 - c, 2, 2, FALSE) ELSE "+" \o FormatFixed(c, 2, 2, FALSE)

Abs(x) == IF x < 0 THEN 0 - x ELSE x

----------------------------------------------------------------------------
(* NeoLinkSpoonAgent: token extraction                                      *)

\* COMPREHENSIVE_TOKEN_MAPPING, in the order of the dict literal
COMPREHENSIVE_TOKEN_MAPPING ==
    << <<"bitcoin", "BTC">>, <<"btc", "BTC">>, <<"ethereum", "ETH">>, <<"eth", "ETH">>,
       <<"ether", "ETH">>, <<"neo", "NEO">>, <<"neocoin", "NEO">>, <<"neo token", "NEO">>,
       <<"gas", "GAS">>, <<"neo gas", "GAS">>, <<"neogas", "GAS">>, <<"nneo", "NNEO">>,
       <<"wrapped neo", "NNEO">>, <<"flamingo", "FLM">>, <<"flm", "FLM">>,
       <<"neoburger", "BURGER">>, <<"burger", "BURGER">>, <<"algorand", "ALGO">>,
       <<"algo", "ALGO">>, <<"cardano", "ADA">>, <<"ada", "ADA">>, <<"polkadot", "DOT">>,
       <<"dot", "DOT">>, <<"solana", "SOL">>, <<"sol", "SOL">>, <<"polygon", "MATIC">>,
       <<"matic", "MATIC">>, <<"avalanche", "AVAX">>, <<"avax", "AVAX">>,
       <<"chainlink", "LINK">>, <<"link", "LINK">>, <<"uniswap", "UNI">>, <<"uni", "UNI">>,
       <<"aave", "AAVE">>, <<"compound", "COMP">>, <<"comp", "COMP">>, <<"maker", "MKR">>,
       <<"mkr", "MKR">>, <<"curve", "CRV">>, <<"crv", "CRV">>, <<"synthetix", "SNX">>,
       <<"snx", "SNX">>, <<"binance coin", "BNB">>, <<"bnb", "BNB">>, <<"ripple", "XRP">>,
       <<"xrp", "XRP">>, <<"dogecoin", "DOGE">>, <<"doge", "DOGE">>, <<"shiba inu", "SHIB">>,
       <<"shib", "SHIB">>, <<"shiba", "SHIB">>, <<"litecoin", "LTC">>, <<"ltc", "LTC">>,
       <<"bitcoin cash", "BCH">>, <<"bch", "BCH">>, <<"ethereum classic", "ETC">>,
       <<"etc", "ETC">>, <<"filecoin", "FIL">>, <<"fil", "FIL">>, <<"cosmos", "ATOM">>,
       <<"atom", "ATOM">>, <<"usdc", "USDC">>, <<"usd coin", "USDC">>, <<"usdt", "USDT">>,
       <<"tether", "USDT">>, <<"dai", "DAI">>, <<"dai stablecoin", "DAI">>,
       <<"busd", "BUSD">>, <<"binance usd", "BUSD">>, <<"tusd", "TUSD">>,
       <<"trueusd", "TUSD">>, <<"arbitrum", "ARB">>, <<"arb", "ARB">>,
       <<"optimism", "OP">>, <<"op", "OP">>, <<"immutable", "IMX">>, <<"imx", "IMX">>,
       <<"loopring", "LRC">>, <<"lrc", "LRC">>, <<"pepe", "PEPE">>, <<"wojak", "WOJAK">>,
       <<"bonk", "BONK">> >>

\* A character of \w (the messages of the model are ASCII)
IsWordChar(c) ==
    \/ IsDigit(c)
    \/ c = "_"
    \/ \E i \in 1..Len(UpperLetters) : Char(UpperLetters, i) = c \/ Char(LowerLetters, i) = c

IsUpperLetter(c) == \E i \in 1..Len(UpperLetters) : Char(UpperLetters, i) = c

\* re.findall(r'\b([A-Z]{2,10})\b', s): the [i, j] of the runs of 2 to 10
\* capital letters that have no word character on either side
SymbolWords(s) ==
    {<<i, j>> \in (1..Len(s)) \X (1..Len(s)) :
        /\ j - i + 1 >= 2
        /\ j - i + 1 <= 10
        /\ \A k \in i..j : IsUpperLetter(Char(s, k))
        /\ (i = 1 \/ ~IsWordChar(Char(s, i - 1)))
        /\ (j = Len(s) \/ ~IsWordChar(Char(s, j + 1)))}

SkippedWords == {"USD", "API", "URL", "FAQ", "CEO", "CTO"}

\* extract_token_symbol(message): the symbol of the first alias of the table
\* the message contains, else the first capitalised word that is a symbol
extract_token_symbol(message) ==
    LET message_lower == Strip(Lower(message))
        hits == {k \in 1..Len(COMPREHENSIVE_TOKEN_MAPPING) :
                    Contains(COMPREHENSIVE_TOKEN_MAPPING[k][1], message_lower)}
        upper == Upper(message)
        symbols == {COMPREHENSIVE_TOKEN_MAPPING[k][2] : k \in 1..Len(COMPREHENSIVE_TOKEN_MAPPING)}
        words == {w \in SymbolWords(upper) :
                    /\ SubSeq(upper, w[1], w[2]) \notin SkippedWords
                    /\ SubSeq(upper, w[1], w[2]) \in symbols}
    IN  IF hits # {}
        THEN COMPREHENSIVE_TOKEN_MAPPING[CHOOSE k \in hits : \A h \in hits : k <= h][2]
        ELSE IF words # {}
        THEN LET w == CHOOSE w \in words : \A v \in words : w[1] <= v[1]
             IN  SubSeq(upper, w[1], w[2])
        ELSE None

----------------------------------------------------------------------------
(* NeoLinkSpoonAgent: RealDataService and the handlers.  What a provider    *)
(* does on one call is an input of the call.                                 *)

\* data_service.get_token_price(token_symbol) (and get_neo_chain_price, which
\* runs the same statements on its own id table): the dict of the reply, or
\* None (none), with the fields that are null named in nulls.  cg is what the price API does: it raises or times out, answers with
\* another status than 200, answers without the token's id, without one of the
\* two fields, or with the fields (a number or null each).
data_get_token_price(token_symbol, cg) ==
    IF cg.status \in {"raises", "status_not_200", "id_missing", "field_missing"}
    THEN [none |-> TRUE, price |-> 0, change_24h |-> 0, nulls |-> {}]
    ELSE [none |-> FALSE, price |-> cg.usd, change_24h |-> cg.change,
          nulls |-> IF cg.status = "usd_null" THEN {"price"}
                    ELSE IF cg.status = "change_null" THEN {"change_24h"} ELSE {}]

\* data_service.get_gas_price(): the three tiers.  etherscan, metaswap and
\* chain are what the oracle API, the fallback API and the node do.
HardcodedTiers == [safe |-> 12, standard |-> 15, fast |-> 20]

get_gas_price(etherscan, metaswap, chain) ==
    IF etherscan.status \in {"raises", "malformed"} THEN HardcodedTiers
    ELSE IF etherscan.status = "ok" THEN etherscan.tiers
    ELSE \* another status than 200, or a body whose status is not '1'
         IF metaswap.status \in {"raises", "malformed"} THEN HardcodedTiers
         ELSE IF metaswap.status = "ok" THEN metaswap.tiers
         ELSE \* the node: from_wei gives 0 for 0 and a Decimal otherwise, and
              \* a Decimal times the float 0.8 raises TypeError
              IF chain.status = "connected" /\ chain.gas_gwei = 0
              THEN [safe |-> 0, standard |-> 0, fast |-> 0]
              ELSE HardcodedTiers

NoPriceDataText(token_symbol) ==
    "Hmm, I couldn't find price data for " \o Upper(token_symbol) \o " right now!"

PriceTroubleText == "I'm having trouble getting price data right now."

_get_price_commentary(symbol, price, change) ==
    CASE symbol = "ETH" ->
            IF price > 3000 * Pow10(4) THEN "ETH is looking strong!"
            ELSE IF price > 2000 * Pow10(4) THEN "ETH holding steady in good territory!"
            ELSE "Might be a good time to stack some ETH!"
      [] symbol = "BTC" ->
            IF price > 60000 * Pow10(4) THEN "Bitcoin to the moon!"
            ELSE IF price > 40000 * Pow10(4) THEN "BTC looking solid!"
            ELSE "Bitcoin having a moment... HODL!"
      [] symbol \in {"USDC", "USDT", "DAI"} -> "Stable as always!"
      [] OTHER -> "Keep an eye on those charts!"

\* A price that could not be fetched is shown as a price of 0.
get_real_price_zero_on_failure(token_symbol, cg) ==
    LET price_data == data_get_token_price(token_symbol, cg)
    IN  IF price_data.nulls # {}
        THEN PriceTroubleText  \* None > 0 raises TypeError, which is caught
        ELSE LET price == price_data.price
                 change_24h == price_data.change_24h
                 price_str == IF price > 1000 * Pow10(4)
                              THEN "$" \o FormatFixed(price, 4, 2, TRUE)
                              ELSE "$" \o FormatFixed(price, 4, 4, FALSE)
                 enthusiasm ==
                     IF Abs(change_24h) > 500
                     THEN (IF change_24h > 500 THEN " Wow, quite a move!" ELSE " That's a big dip!")
                     ELSE IF Abs(change_24h) > 200
                     THEN (IF change_24h > 200 THEN " Nice movement!" ELSE " Bit of a slide there.")
                     ELSE ""
             IN  "Here's the latest on " \o Upper(token_symbol) \o "! Current Price: "
                 \o price_str \o " 24h Change: " \o FormatSigned(change_24h) \o "%"
                 \o enthusiasm \o " "
                 \o _get_price_commentary(Upper(token_symbol), price, change_24h)

\* get_real_price(token_symbol)
get_real_price(token_symbol, cg) ==
    LET price_data == data_get_token_price(token_symbol, cg)
    IN  IF price_data.none THEN NoPriceDataText(token_symbol)
        ELSE IF price_data.nulls # {}
        THEN PriceTroubleText  \* None > 0 raises TypeError, which is caught
        ELSE LET price == price_data.price
                 change_24h == price_data.change_24h
                 price_str == IF price > 1000 * Pow10(4)
                              THEN "$" \o FormatFixed(price, 4, 2, TRUE)
                              ELSE "$" \o FormatFixed(price, 4, 4, FALSE)
                 enthusiasm ==
                     IF Abs(change_24h) > 500
                     THEN (IF change_24h > 500 THEN " Wow, quite a move!" ELSE " That's a big dip!")
                     ELSE IF Abs(change_24h) > 200
                     THEN (IF change_24h > 200 THEN " Nice movement!" ELSE " Bit of a slide there.")
                     ELSE ""
             IN  "Here's the latest on " \o Upper(token_symbol) \o "! Current Price: "
                 \o price_str \o " 24h Change: " \o FormatSigned(change_24h) \o "%"
                 \o enthusiasm \o " "
                 \o _get_price_commentary(Upper(token_symbol), price, change_24h)

\* get_real_gas_info()
get_real_gas_info(etherscan, metaswap, chain) ==
    LET gas_data == get_gas_price(etherscan, metaswap, chain)
    IN  "Here's what gas is looking like right now! Safe: " \o NatToStr(gas_data.safe)
        \o " Gwei Standard: " \o NatToStr(gas_data.standard)
        \o " Gwei Fast: " \o NatToStr(gas_data.fast) \o " Gwei"

BalanceTroubleText ==
    "Hmm, I'm having trouble connecting to the blockchain right now. Could you try again in a moment?"

Shortened(wallet_address) == Prefix(wallet_address, 10) \o "..." \o Suffix(wallet_address, 6)

\* check_real_balance(wallet_address, token_symbol).  balance is what
\* get_eth_balance / get_token_balance return: the balance the node reports,
\* or 0.0 when the call fails or the token has no contract.
check_real_balance(wallet_address, token_symbol, balance, cg) ==
    IF Upper(token_symbol) = "ETH"
    THEN LET price_data == data_get_token_price("ETH", cg)
         IN  IF ~price_data.none /\ price_data.nulls # {}
             THEN BalanceTroubleText  \* formatting or comparing None raises TypeError
             ELSE IF balance = 0
             THEN "I checked your wallet and it looks like you don't have any ETH right now! Your wallet: "
                  \o Shortened(wallet_address)
                  \o (IF price_data.none THEN ""
                      ELSE " Current ETH price is $" \o FormatFixed(price_data.price, 4, 2, TRUE)
                           \o " by the way! (" \o FormatSigned(price_data.change_24h) \o "% today)")
             ELSE IF ~price_data.none
             THEN LET usd_value == (balance * price_data.price) \div 10
                  IN  "Nice! Here's what you've got in your wallet: ETH Balance: "
                      \o FormatFixed(balance, 1, 6, FALSE) \o " ETH USD Value: $"
                      \o FormatFixed(usd_value, 4, 2, TRUE) \o " ETH Price: $"
                      \o FormatFixed(price_data.price, 4, 2, TRUE)
                      \o " (" \o FormatSigned(price_data.change_24h) \o "% today) Your wallet: "
                      \o Shortened(wallet_address) \o " "
                      \o (IF usd_value > 100 * Pow10(4) THEN "Looking good!" ELSE "Every satoshi counts!")
             ELSE "Here's your ETH balance: ETH Balance: " \o FormatFixed(balance, 1, 6, FALSE)
                  \o " ETH Your wallet: " \o Shortened(wallet_address)
    ELSE IF balance = 0
    THEN "I don't see any " \o Upper(token_symbol) \o " in your wallet right now! Your wallet: "
         \o Shortened(wallet_address)
    ELSE "Here's your " \o Upper(token_symbol) \o " balance: " \o FormatFixed(balance, 1, 6, FALSE)
         \o " " \o Upper(token_symbol) \o " Your wallet: " \o Shortened(wallet_address)

NeoLinkLLMOutcomes ==
    {"no_api_key", "request_raises", "status_not_200", "keys_missing",
     "content_text", "content_null", "content_list"}

NoApiKeyText ==
    "I'm having trouble accessing my AI capabilities right now. Try again in a moment!"

ThinkingTroubleText == "I'm having trouble thinking right now! Give me a second and try again?"

HiccupText == "Oops! My brain had a little hiccup there! Could you try asking again?"

LivePricesHint == "\n\nWant live prices? Just ask me like 'ETH price' or 'ALGO price'!"

NeoFanHint == "\n\nNeo blockchain fan? I can get live NEO, GAS, and FLM prices!"

GasFeesHint == "\n\nNeed current gas fees? Just ask 'gas fees'!"

\* The suggestions enhance_ai_response_with_suggestions appends for a message
Suggestions(original_message) ==
    LET message_lower == Lower(original_message)
    IN  (IF ContainsAny(<<"price", "cost", "worth", "value", "expensive", "cheap">>, message_lower)
         THEN LivePricesHint ELSE "")
        \o (IF ContainsAny(<<"neo", "gas", "flamingo", "flm">>, message_lower)
            THEN NeoFanHint ELSE "")
        \o (IF ContainsAny(<<"gas", "fee", "fees", "transaction">>, message_lower)
            THEN GasFeesHint ELSE "")

\* get_ai_response(message, context) of NeoLinkSpoonAgent.  None += str raises
\* TypeError (caught here); list += str extends the list.
neolink_get_ai_response(message, context, llm) ==
    CASE llm = "no_api_key" -> NoApiKeyText
      [] llm = "status_not_200" -> ThinkingTroubleText
      [] llm \in {"request_raises", "keys_missing"} -> HiccupText
      [] llm = "content_text" -> LLMContentText \o Suggestions(message)
      [] llm = "content_null" -> IF Suggestions(message) = "" THEN None ELSE HiccupText
      [] llm = "content_list" -> JsonList

\* build_crypto_context(user_wallet, data, original_message)
build_crypto_context(user_wallet, token, original_message) ==
    (IF user_wallet # None THEN "User has wallet: " \o Shortened(user_wallet)
     ELSE "User has no wallet saved")
    \o (IF token # None
        THEN " | User mentioned token: " \o token
             \o (IF Upper(token) \in {"NEO", "GAS", "NNEO", "FLM", "BURGER"}
                 THEN " | This is a Neo blockchain token - provide Neo-specific insights"
                 ELSE "")
        ELSE "")
    \o " | You can provide real-time crypto prices, gas fees, balance checks, and DeFi education"

NeoLinkNoWalletText ==
    "I don't have your wallet address yet! Send me your Ethereum wallet address (starts with 0x) and I'll check your real balance from the blockchain!"

OopsText ==
    "Oops! Something went wrong on my end. Could you try that again? I promise I'm usually more reliable than this!"

----------------------------------------------------------------------------
(* DeFiSpoonAgent: the intent parser and the handlers.  chain is what the   *)
(* node does when it is asked, balance the balance it reports (in tenths of *)
(* a token), llm what the chat-completion provider answers.                 *)

SpoonNoWalletText ==
    "I don't have your wallet address. Please send me your Ethereum wallet address (starts with 0x) to get started."

\* _parse_message_intent(message): the action and the entries of the dict
\* that are not None
_parse_message_intent(message) ==
    LET message_lower == Lower(message)
        symbols == <<"eth", "usdc", "usdt", "dai">>
        found == {k \in 1..Len(symbols) : Contains(symbols[k], message_lower)}
    IN  IF ContainsAny(<<"balance", "check", "how much">>, message_lower)
        THEN [action |-> "balance",
              data |-> [key \in {"token"} |->
                           IF found = {} THEN "ETH"
                           ELSE Upper(symbols[CHOOSE k \in found : \A j \in found : k <= j])]]
        ELSE IF ContainsAny(<<"send", "transfer", "pay">>, message_lower)
        THEN [action |-> "transfer",
              data |-> DictOf("ETH", SearchAmount(message), SearchAddress(message))]
        ELSE IF ContainsAny(<<"gas", "fee">>, message_lower)
        THEN [action |-> "gas", data |-> EmptyDict]
        ELSE IF ContainsAny(<<"help", "start", "hello", "hi">>, message_lower)
        THEN [action |-> "help", data |-> EmptyDict]
        ELSE [action |-> "general", data |-> EmptyDict]

\* _get_token_balance(wallet_address, token_symbol)
_get_token_balance(wallet_address, token_symbol, chain, balance) ==
    IF Upper(token_symbol) # "ETH" /\ Upper(token_symbol) \notin {"USDC", "USDT", "DAI"}
    THEN "Token " \o token_symbol \o " not supported. Supported tokens: ETH, USDC, USDT, DAI"
    ELSE IF chain.status # "connected"
    THEN "Error retrieving " \o token_symbol \o " balance. Please try again later."
    ELSE "Your " \o token_symbol \o " balance: " \o FormatFixed(balance, 1, 6, FALSE)
         \o " " \o Upper(token_symbol)

SpoonTransferGuidanceText ==
    "To prepare a transfer, please specify: Amount (e.g., 0.1) Recipient address (0x123...) Example: 'Send 0.1 ETH to 0x123...'"

SpoonInvalidRecipientText ==
    "Invalid recipient address format. Please provide a valid Ethereum address starting with 0x"

SpoonPreparationOnlyText ==
    "This is preparation only. Please execute the transfer in your wallet app for security."

\* The amount and the recipient are not tested before the summary is built.
_prepare_transfer_unchecked(from_address, intent, chain) ==
    IF chain.status # "connected"
    THEN [reply |-> "Error preparing transfer: could not connect to the node",
          calls |-> {"w3.eth.gas_price"}]
    ELSE [reply |-> "Transfer Prepared: From: " \o Prefix(to_checksum_address(from_address), 10)
                    \o "..." \o Suffix(to_checksum_address(from_address), 4)
                    \o " To: " \o Prefix(DictGet(intent, "recipient", "None"), 10)
                    \o "..." \o Suffix(DictGet(intent, "recipient", "None"), 4)
                    \o " Amount: " \o DictGet(intent, "amount", "None") \o " "
                    \o Upper(DictGet(intent, "token", "ETH"))
                    \o " Gas Price: " \o FormatFixed(chain.gas_gwei, 0, 2, FALSE) \o " Gwei "
                    \o SpoonPreparationOnlyText,
          calls |-> {"w3.eth.gas_price"}]

\* The prepared transfer is also handed to the node.
_prepare_transfer_broadcasts(from_address, intent, chain) ==
    IF "amount" \notin DOMAIN intent \/ "recipient" \notin DOMAIN intent
    THEN [reply |-> SpoonTransferGuidanceText, calls |-> {}]
    ELSE IF ~is_address(intent["recipient"])
    THEN [reply |-> SpoonInvalidRecipientText, calls |-> {}]
    ELSE IF chain.status # "connected"
    THEN [reply |-> "Error preparing transfer: could not connect to the node",
          calls |-> {"w3.eth.gas_price"}]
    ELSE [reply |-> "Transfer Prepared: From: " \o Prefix(to_checksum_address(from_address), 10)
                    \o "..." \o Suffix(to_checksum_address(from_address), 4)
                    \o " To: " \o Prefix(to_checksum_address(intent["recipient"]), 10)
                    \o "..." \o Suffix(to_checksum_address(intent["recipient"]), 4)
                    \o " Amount: " \o intent["amount"] \o " " \o Upper(DictGet(intent, "token", "ETH"))
                    \o " Gas Price: " \o FormatFixed(chain.gas_gwei, 0, 2, FALSE) \o " Gwei "
                    \o SpoonPreparationOnlyText,
          calls |-> {"w3.eth.gas_price", "w3.eth.send_transaction"}]

\* _prepare_transfer(from_address, intent): the reply and the calls made to
\* the node.  An amount or a recipient that is None is absent from intent; a
\* node that cannot be reached makes w3.eth.gas_price raise.
_prepare_transfer(from_address, intent, chain) ==
    IF "amount" \notin DOMAIN intent \/ "recipient" \notin DOMAIN intent
    THEN [reply |-> SpoonTransferGuidanceText, calls |-> {}]
    ELSE IF ~is_address(intent["recipient"])
    THEN [reply |-> SpoonInvalidRecipientText, calls |-> {}]
    ELSE IF chain.status # "connected"
    THEN [reply |-> "Error preparing transfer: could not connect to the node",
          calls |-> {"w3.eth.gas_price"}]
    ELSE [reply |-> "Transfer Prepared: From: " \o Prefix(to_checksum_address(from_address), 10)
                    \o "..." \o Suffix(to_checksum_address(from_address), 4)
                    \o " To: " \o Prefix(to_checksum_address(intent["recipient"]), 10)
                    \o "..." \o Suffix(to_checksum_address(intent["recipient"]), 4)
                    \o " Amount: " \o intent["amount"] \o " " \o Upper(DictGet(intent, "token", "ETH"))
                    \o " Gas Price: " \o FormatFixed(chain.gas_gwei, 0, 2, FALSE) \o " Gwei "
                    \o SpoonPreparationOnlyText,
          calls |-> {"w3.eth.gas_price"}]

\* _get_gas_price()
_get_gas_price(chain) ==
    IF chain.status # "connected" THEN "Unable to fetch current gas price"
    ELSE "Current gas price: " \o FormatFixed(chain.gas_gwei, 0, 2, FALSE) \o " Gwei"

\* _get_help_message()
_get_help_message ==
    "DeFi Assistant Help Commands I understand: Send your wallet address (0x123...) to get started"

\* _handle_general_query(message, user_wallet)
_handle_general_query(message, user_wallet, llm) ==
    CASE llm = "status_not_200" ->
            "I'm having trouble processing that. Try 'help' to see what I can do!"
      [] llm = "content_text" -> LLMContentText
      [] llm = "content_null" -> None
      [] llm = "content_list" -> JsonList
      [] OTHER -> "I'm not sure how to help with that. Type 'help' to see available commands!"

----------------------------------------------------------------------------
(* The inputs of the model *)

Users == {"whatsapp:+111", "whatsapp:+222"}

\* The address of test_agent, an all-digit one, and one whose hex digits spell
\* the gas_fees keyword 'fee'.
Addr1 == "0x742d35Cc6634C0532925a3b8D4C9db96C4b4d8e8"

Addr2 == "0x1234567890123456789012345678901234567890"

Addr3 == "0xFEE0000000000000000000000000000000000ada"

\* 42 characters, the prefix 0x, and a last character that is no hex digit
NotHex42 == "0x742d35Cc6634C0532925a3b8D4C9db96C4b4d8eg"

\* Message bodies as a webhook, a test or a direct caller passes them.
Messages ==
    {Addr1, "  " \o Addr2 \o "\n", Addr3, NotHex42, Addr2 \o "1",
     "check my balance", "what's my ETH balance",
     "send 0.5 ETH to " \o Addr2, "send 0.5 to " \o Addr2, "pay " \o Addr2, "transfer",
     "send 0.5", "how much ETH do I have", "ETH price", "what's bitcoin worth", "current gas fees",
     "what is uniswap", "explain yield farming",
     "hello", "hi there", "thanks!", "help me", "yo",
     "bitcoin cash price", "gas price", "ethereum",
     "purple elephant migration patterns", ""}

\* Arguments a direct caller passes to save_user_wallet.
Candidates ==
    {Addr1, Addr2, Lower(Addr1), NotHex42,
     "0X" \o SubSeq(Addr2, 3, Len(Addr2)), "0x1234", Addr2 \o "1", " " \o Addr2,
     SubSeq(Addr1, 3, Len(Addr1)) \o "aa", ""}

\* Calls served in one run.
MaxCalls == 3

\* extract_intent(message), evaluated once for each message of the model.
Classified == [message \in Messages |-> extract_intent(message)]

\* The messages whose handling asks the chat-completion provider.
GeneralMessages == {message \in Messages : Classified[message].intent = "general"}

\* The messages DeFiSpoonAgent is given: addresses web3 accepts and one it
\* refuses, and transfers with and without an amount and a recipient.
SpoonMessages ==
    {Addr2, "  " \o Addr2 \o "\n", Lower(Addr1), Addr1, "check my balance",
     "send 0.5 ETH to " \o Addr2, "send 0.5", "transfer", "pay " \o Addr3,
     "current gas fees", "hello", "purple elephant migration patterns"}

\* The branch of process_message a message takes, evaluated once for each
\* message of the model.
Parsed ==
    [message \in SpoonMessages |->
        IF is_wallet_address(message)
        THEN [action |-> "wallet_address", data |-> [k \in {"address"} |-> Strip(message)]]
        ELSE _parse_message_intent(message)]

----------------------------------------------------------------------------
(* IntelligentDeFiAgent.process_whatsapp_message *)

\* One call: the classification, the reply returned, the dict after the call
\* and the handlers and providers it called.  t is the clock, llm the answer
\* of the chat-completion provider should the call ask it.
process_whatsapp_message(wallets, user_phone, message, t, llm) ==
    LET r == Classified[message]
        intent == r.intent
        data == r.data
        user_wallet == get_user_wallet(wallets, user_phone)
        out(reply, calls) ==
            [intent |-> intent, data |-> data, reply |-> reply, wallets |-> wallets,
             calls |-> calls]
    IN  CASE intent = "wallet_address" ->
               LET saved == save_user_wallet(wallets, user_phone, data["address"], t)
               IN  [intent |-> intent, data |-> data, reply |-> saved.reply,
                    wallets |-> saved.wallets, calls |-> {"save_user_wallet"}]
          [] intent = "balance_check" ->
               IF user_wallet = None
               THEN out(NoWalletBalanceText, {})
               ELSE out(check_balance(user_wallet, DictGet(data, "token", "ETH")),
                        {"check_balance"})
          [] intent = "price_check" ->
               out(get_token_price(DictGet(data, "token", "ETH")), {"get_token_price"})
          [] intent = "transfer" ->
               IF user_wallet = None
               THEN out(NoWalletTransferText, {})
               ELSE out(TransferPreview(user_wallet,
                                        DictGet(data, "amount", "unspecified"),
                                        DictGet(data, "recipient", "unspecified"),
                                        DictGet(data, "token", "ETH")), {})
          [] intent = "gas_fees" -> out(get_gas_info, {"get_gas_info"})
          [] intent = "defi_info" -> out(get_defi_info(message), {"get_defi_info"})
          [] intent = "help" -> out(HelpText(user_wallet), {})
          [] intent = "greeting" -> out(GreetingText(user_wallet), {})
          [] intent = "thanks" -> out(ThanksText, {})
          [] OTHER ->
               out(get_ai_response(message, AiContext(user_wallet), llm), {"get_ai_response"})

----------------------------------------------------------------------------
(* NeoLinkSpoonAgent.process_whatsapp_message (the second definition of the *)
(* class body, which is the one the class keeps)                            *)

\* What the providers do during one call: the chat-completion API, the price
\* API, the two gas oracles, the node's gas price and the balance it reports.
Unused == [status |-> "unused"]

NoEnv ==
    [llm |-> None, cg |-> Unused, etherscan |-> Unused, metaswap |-> Unused,
     chain |-> Unused, balance |-> 0]

PriceWords == <<"price", "cost", "worth", "value", "trading", "market">>

GasPhrases == <<"gas fee", "gas fees", "gas price", "gwei", "network fee">>

BalanceWords == <<"balance", "check balance", "my balance", "wallet balance">>

\* The branch of process_whatsapp_message a message takes for a user with or
\* without a saved wallet, and the token extract_token_symbol finds in it.
neolink_route(message) ==
    LET message_lower == Strip(Lower(message))
        token == extract_token_symbol(message_lower)
    IN  [token |-> token,
         route |-> IF is_wallet_address(message) THEN "wallet_address"
                   ELSE IF token # None /\ ContainsAny(PriceWords, message_lower)
                   THEN "price_check"
                   ELSE IF ContainsAny(GasPhrases, message_lower) THEN "gas_fees"
                   ELSE IF ContainsAny(BalanceWords, message_lower) THEN "balance_check"
                   ELSE "general"]

\* neolink_route(message), evaluated once for each message of the model.
Routed == [message \in Messages |-> neolink_route(message)]

neolink_process_whatsapp_message(wallets, user_phone, message, t, env) ==
    LET route == Routed[message].route
        token == Routed[message].token
        user_wallet == get_user_wallet(wallets, user_phone)
        data == IF token = None THEN EmptyDict ELSE [k \in {"token"} |-> token]
        out(reply, calls) ==
            [intent |-> route, data |-> data, reply |-> reply, wallets |-> wallets,
             calls |-> calls]
    IN  CASE route = "wallet_address" ->
               LET saved == neolink_save_user_wallet(wallets, user_phone, Strip(message), t)
               IN  [intent |-> route, data |-> [k \in {"address"} |-> Strip(message)],
                    reply |-> saved.reply, wallets |-> saved.wallets,
                    calls |-> {"save_user_wallet"}]
          [] route = "price_check" -> out(get_real_price(token, env.cg), {"get_real_price"})
          [] route = "gas_fees" ->
               out(get_real_gas_info(env.etherscan, env.metaswap, env.chain),
                   {"get_real_gas_info"})
          [] route = "balance_check" ->
               IF user_wallet # None
               THEN out(check_real_balance(user_wallet, IF token # None THEN token ELSE "ETH",
                                           env.balance, env.cg), {"check_real_balance"})
               ELSE out(NeoLinkNoWalletText, {})
          [] OTHER ->
               LET context == build_crypto_context(user_wallet, token, message)
                   response == neolink_get_ai_response(message, context, env.llm)
               IN  \* response[:50] for the log raises TypeError on None
                   out(IF response = None THEN OopsText ELSE response, {"get_ai_response"})

----------------------------------------------------------------------------
(* DeFiSpoonAgent.process_message *)

process_message(wallets, user_phone, message, t, env) ==
    LET intent == Parsed[message]
        user_wallet == get_user_wallet(wallets, user_phone)
        out(reply, calls) ==
            [intent |-> intent.action, data |-> intent.data, reply |-> reply,
             wallets |-> wallets, calls |-> calls]
    IN  CASE intent.action = "wallet_address" ->
               LET saved == _save_user_wallet(wallets, user_phone, Strip(message), t)
               IN  [intent |-> intent.action, data |-> intent.data, reply |-> saved.reply,
                    wallets |-> saved.wallets, calls |-> {"save_user_wallet"}]
          [] intent.action = "balance" ->
               IF user_wallet = None THEN out(SpoonNoWalletText, {})
               ELSE out(_get_token_balance(user_wallet, DictGet(intent.data, "token", "ETH"),
                                           env.chain, env.balance), {"_get_token_balance"})
          [] intent.action = "transfer" ->
               IF user_wallet = None THEN out(SpoonNoWalletText, {})
               ELSE LET prepared == _prepare_transfer(user_wallet, intent.data, env.chain)
                    IN  out(prepared.reply, prepared.calls)
          [] intent.action = "gas" -> out(_get_gas_price(env.chain), {"w3.eth.gas_price"})
          [] intent.action = "help" -> out(_get_help_message, {})
          [] OTHER ->
               out(_handle_general_query(message, user_wallet, env.llm), {"_handle_general_query"})

----------------------------------------------------------------------------
(* What the providers may do *)

OracleTiers == [safe |-> 10, standard |-> 14, fast |-> 18]

FallbackTiers == [safe |-> 11, standard |-> 16, fast |-> 21]

\* The price API: its failures, a null field, and prices below 1, at 1000 and
\* above, with a rising and a falling 24h change.
PriceOutcomes ==
    {[status |-> st, usd |-> 0, change |-> 0] : st \in {"raises", "status_not_200", "id_missing"}}
    \cup {[status |-> "change_null", usd |-> 24208000, change |-> 0]}
    \cup {[status |-> "ok", usd |-> usd, change |-> 310] : usd \in {5000, 10000000, 24208000}}
    \cup {[status |-> "ok", usd |-> 24208000, change |-> 0 - 625]}

\* The gas sources: what each of the three does when it is asked (oracle API,
\* fallback API, the node and the gas price it reports in Gwei).
GasOutcomes ==
    {[NoEnv EXCEPT !.etherscan = [status |-> x[1], tiers |-> OracleTiers],
                   !.metaswap = [status |-> x[2], tiers |-> FallbackTiers],
                   !.chain = [status |-> x[3], gas_gwei |-> x[4]]] :
        x \in {<<"ok", "ok", "connected", 15>>,
               <<"raises", "ok", "connected", 15>>,
               <<"malformed", "ok", "connected", 15>>,
               <<"status_not_200", "ok", "connected", 15>>,
               <<"status_not_1", "ok", "connected", 15>>,
               <<"status_not_200", "raises", "connected", 15>>,
               <<"status_not_1", "status_not_200", "not_connected", 0>>,
               <<"status_not_1", "status_not_200", "connected", 0>>,
               <<"status_not_1", "status_not_200", "connected", 15>>}}

\* Balances the node may report, in tenths of a token (0 also when it fails),
\* and what the price API does when the balance reply asks it.
BalanceOutcomes ==
    {[NoEnv EXCEPT !.cg = cg, !.balance = b] :
        b \in {0, 15},
        cg \in {c \in PriceOutcomes : c.status \in {"status_not_200", "change_null"}
                                       \/ (c.status = "ok" /\ c.usd = 24208000 /\ c.change = 310)}}

\* The messages NeoLinkSpoonAgent is given.
NeoLinkMessages ==
    {Addr1, "  " \o Addr2 \o "\n", NotHex42, "check my balance", "what's my ETH balance",
     "ETH price", "bitcoin cash price", "gas price", "current gas fees", "hello",
     "purple elephant migration patterns"}

MessagesOf(a) ==
    CASE a = "NeoLinkSpoonAgent" -> NeoLinkMessages
      [] a = "DeFiSpoonAgent" -> SpoonMessages
      [] OTHER -> Messages

\* What the node may do when DeFiSpoonAgent asks it.
SpoonNodeOutcomes ==
    {[NoEnv EXCEPT !.chain = [status |-> "not_connected", gas_gwei |-> 0]],
     [NoEnv EXCEPT !.chain = [status |-> "connected", gas_gwei |-> 15], !.balance = 15]}

\* What the providers may do during the call of DeFiSpoonAgent that handles
\* message.
SpoonOutcomes(message, has_wallet) ==
    CASE Parsed[message].action \in {"balance", "transfer"} /\ has_wallet -> SpoonNodeOutcomes
      [] Parsed[message].action = "gas" -> SpoonNodeOutcomes
      [] Parsed[message].action = "general" -> {[NoEnv EXCEPT !.llm = llm] : llm \in LLMOutcomes}
      [] OTHER -> {NoEnv}

\* What the providers may do during the call that handles message.
Outcomes(message, has_wallet) ==
    IF agent = "IntelligentDeFiAgent"
    THEN (IF message \in GeneralMessages
          THEN {[NoEnv EXCEPT !.llm = llm] : llm \in LLMOutcomes} ELSE {NoEnv})
    ELSE IF agent = "DeFiSpoonAgent" THEN SpoonOutcomes(message, has_wallet)
    ELSE CASE Routed[message].route = "price_check" ->
                {[NoEnv EXCEPT !.cg = cg] : cg \in PriceOutcomes}
           [] Routed[message].route = "gas_fees" -> GasOutcomes
           [] Routed[message].route = "balance_check" /\ has_wallet -> BalanceOutcomes
           [] Routed[message].route = "general" ->
                {[NoEnv EXCEPT !.llm = llm] : llm \in NeoLinkLLMOutcomes}
           [] OTHER -> {NoEnv}

----------------------------------------------------------------------------
(* The state machine *)

NoCall ==
    [op |-> "none", user |-> None, arg |-> None, intent |-> None, data |-> EmptyDict,
     reply |-> None, calls |-> {}, env |-> NoEnv]

InitStore ==
    /\ USER_WALLETS = EmptyDict
    /\ now = 0
    /\ last = NoCall
    /\ recent = [u \in Users |-> [address |-> None, saved |-> {}]]
    /\ defi_agent = None
    /\ requests = <<>>

\* The agents the webhook servers, the tests and direct callers drive through
\* process_whatsapp_message (process_message of DeFiSpoonAgent).
Init == agent \in {"IntelligentDeFiAgent", "NeoLinkSpoonAgent", "DeFiSpoonAgent"} /\ InitStore

\* What the reply of a successful save starts with.
SavedHeadline ==
    IF agent = "NeoLinkSpoonAgent" THEN NeoLinkWalletSavedText ELSE WalletSavedText

\* The observation of who saved what, read off the call's reply.
Observe(user, argument, reply) ==
    IF StartsWith(reply, SavedHeadline)
    THEN [recent EXCEPT ![user] = [address |-> argument, saved |-> @.saved \cup {argument}]]
    ELSE recent

\* The webhook (or a test) hands one message of one user to the agent.
ProcessWhatsappMessage(user, message) ==
    /\ now < MaxCalls
    /\ \E env \in Outcomes(message, get_user_wallet(USER_WALLETS, user) # None) :
          \E res \in {CASE agent = "IntelligentDeFiAgent" ->
                             process_whatsapp_message(USER_WALLETS, user, message, now, env.llm)
                        [] agent = "DeFiSpoonAgent" ->
                             process_message(USER_WALLETS, user, message, now, env)
                        [] OTHER ->
                             neolink_process_whatsapp_message(USER_WALLETS, user, message, now,
                                                              env)} :
              /\ USER_WALLETS' = res.wallets
              /\ last' = [op |-> "process_whatsapp_message", user |-> user, arg |-> message,
                          intent |-> res.intent, data |-> res.data, reply |-> res.reply,
                          calls |-> res.calls, env |-> env]
              /\ recent' = IF "save_user_wallet" \in res.calls
                           THEN Observe(user, res.data["address"], res.reply)
                           ELSE recent
    /\ now' = now + 1
    /\ UNCHANGED <<agent, defi_agent, requests>>

\* Once a wallet is saved, an address is no longer classified as one.
ExtractIntent_depends_on_store(message) ==
    /\ agent = "IntelligentDeFiAgent"
    /\ now < MaxCalls
    /\ \E res \in {IF DOMAIN USER_WALLETS # {} /\ Classified[message].intent = "wallet_address"
                    THEN [intent |-> "general", data |-> EmptyDict]
                    ELSE Classified[message]} :
           last' = [NoCall EXCEPT !.op = "extract_intent", !.arg = message,
                                  !.intent = res.intent, !.data = res.data]
    /\ now' = now + 1
    /\ UNCHANGED <<agent, USER_WALLETS, recent, defi_agent, requests>>

\* A caller classifies one message with extract_intent and does nothing else.
ExtractIntent(message) ==
    /\ agent = "IntelligentDeFiAgent"
    /\ now < MaxCalls
    /\ \E res \in {Classified[message]} :
           last' = [NoCall EXCEPT !.op = "extract_intent", !.arg = message,
                                  !.intent = res.intent, !.data = res.data]
    /\ now' = now + 1
    /\ UNCHANGED <<agent, USER_WALLETS, recent, defi_agent, requests>>

Next ==
    \/ \E user \in Users, message \in MessagesOf(agent) : ProcessWhatsappMessage(user, message)
    \/ \E message \in Messages : ExtractIntent(message)

Spec == Init /\ [][Next]_vars

----------------------------------------------------------------------------
(* The session store called directly: save_user_wallet and get_user_wallet  *)
(* of each agent class                                                      *)

StoreAgents == {"IntelligentDeFiAgent", "SimpleDeFiAgent", "NeoLinkSpoonAgent", "DeFiSpoonAgent"}

\* The agents whose save stores its argument as given.
VerbatimAgents == {"IntelligentDeFiAgent", "SimpleDeFiAgent", "NeoLinkSpoonAgent"}

InitDirect == agent \in StoreAgents /\ InitStore

SaveUserWallet(user, candidate) ==
    /\ now < MaxCalls
    /\ \E res \in {CASE agent = "NeoLinkSpoonAgent" ->
                          neolink_save_user_wallet(USER_WALLETS, user, candidate, now)
                      [] agent = "DeFiSpoonAgent" ->
                          _save_user_wallet(USER_WALLETS, user, candidate, now)
                      [] OTHER -> save_user_wallet(USER_WALLETS, user, candidate, now)} :
           /\ USER_WALLETS' = res.wallets
           /\ last' = [NoCall EXCEPT !.op = "save_user_wallet", !.user = user,
                                     !.arg = candidate, !.reply = res.reply]
           /\ recent' = Observe(user, candidate, res.reply)
    /\ now' = now + 1
    /\ UNCHANGED <<agent, defi_agent, requests>>

GetUserWallet(user) ==
    /\ now < MaxCalls
    /\ last' = [NoCall EXCEPT !.op = "get_user_wallet", !.user = user,
                              !.reply = get_user_wallet(USER_WALLETS, user)]
    /\ now' = now + 1
    /\ UNCHANGED <<agent, USER_WALLETS, recent, defi_agent, requests>>

NextDirect ==
    \/ \E user \in Users, candidate \in Candidates : SaveUserWallet(user, candidate)
    \/ \E user \in Users : GetUserWallet(user)

SpecDirect == InitDirect /\ [][NextDirect]_vars

----------------------------------------------------------------------------
(* SimpleDeFiAgent, the agent app.py serves its webhook with *)

\* The key of a user's entry: USER_WALLETS is a dict of the module and not of
\* the instance, so that the entry is found under user_phone whichever instance
\* self is.
SessionKey_of_instance(self, user_phone) == self \o ":" \o user_phone

SessionKey(self, user_phone) == user_phone

\* check_balance of SimpleDeFiAgent
simple_check_balance(wallet_address, token_symbol) ==
    LET mock_balances == ("ETH" :> "1.234567") @@ ("USDC" :> "1,250.50")
                         @@ ("USDT" :> "890.25") @@ ("DAI" :> "500.00")
    IN  "Balance for " \o Prefix(wallet_address, 10) \o "..." \o Suffix(wallet_address, 4)
        \o ": " \o DictGet(mock_balances, token_symbol, "0.00") \o " " \o token_symbol

\* process_whatsapp_message of SimpleDeFiAgent: the reply, the dict after the
\* call, and the value get_user_wallet returned (None also when it was not
\* called).  The call touches the dict once: it stores the entry built from an
\* address, or it reads the sender's entry.
simple_process_whatsapp_message(self, wallets, user_phone, message, t) ==
    LET user_wallet == get_user_wallet(wallets, SessionKey(self, user_phone))
        message_lower == Lower(message)
        token == IF Contains("usdc", message_lower) THEN "USDC"
                 ELSE IF Contains("usdt", message_lower) THEN "USDT"
                 ELSE IF Contains("dai", message_lower) THEN "DAI" ELSE "ETH"
        out(reply, calls) ==
            [reply |-> reply, wallets |-> wallets, calls |-> calls \cup {"get_user_wallet"},
             user_wallet |-> user_wallet]
    IN  IF is_wallet_address(message)
        THEN LET saved == save_user_wallet(wallets, SessionKey(self, user_phone),
                                           Strip(message), t)
             IN  [reply |-> saved.reply, wallets |-> saved.wallets,
                  calls |-> {"save_user_wallet"}, user_wallet |-> None]
        ELSE IF ContainsAny(<<"balance", "check">>, message_lower)
        THEN (IF user_wallet = None
              THEN out("I don't have your wallet address. Please send me your Ethereum wallet address (starts with 0x) to get started.", {})
              ELSE out(simple_check_balance(user_wallet, token), {"check_balance"}))
        ELSE IF ContainsAny(<<"help", "start", "hello", "hi">>, message_lower)
        THEN out("DeFi Assistant Help Commands I understand: Send your wallet address (0x123...) to get started", {})
        ELSE IF Contains("defi", message_lower)
        THEN out("DeFi (Decentralized Finance) is a blockchain-based form of finance that doesn't rely on traditional financial institutions.", {})
        ELSE out("I'm not sure how to help with that. Type 'help' to see available commands!", {})

----------------------------------------------------------------------------
(* The webhook server of app.py.  Each request is served by a thread of its  *)
(* own, which runs get_agent and process_whatsapp_message on an event loop   *)
(* of its own; the threads share defi_agent and USER_WALLETS and are         *)
(* interleaved between any two accesses to them.                             *)

\* The bodies Twilio posts to the webhook.
WebhookMessages == {Addr1, "  " \o Addr2 \o "\n", "check my balance"}

\* Requests received in one run.
MaxRequests == 2

\* The instance create_agent() returns to the thread of request r.
NewAgent(r) == "SimpleDeFiAgent#" \o NatToStr(r)

InitWebhook == agent = "SimpleDeFiAgent" /\ InitStore

\* A request arrives: whatsapp_webhook reads From and the trimmed Body and is
\* about to call get_agent.
WhatsappWebhook(user, body) ==
    /\ Len(requests) < MaxRequests
    /\ requests' = Append(requests, [pc |-> "get_agent", from_number |-> user,
                                     message_body |-> Strip(body), agent |-> None,
                                     user_wallet |-> None, response_text |-> None])
    /\ now' = now + 1
    /\ UNCHANGED <<agent, USER_WALLETS, last, recent, defi_agent>>

\* get_agent: the test `defi_agent is None`
GetAgentTest(r) ==
    /\ requests[r].pc = "get_agent"
    /\ requests' = [requests EXCEPT ![r].pc = IF defi_agent = None THEN "create_agent"
                                              ELSE "return_agent"]
    /\ UNCHANGED <<agent, USER_WALLETS, now, last, recent, defi_agent>>

\* get_agent: `defi_agent = await create_agent()`
GetAgentCreate(r) ==
    /\ requests[r].pc = "create_agent"
    /\ defi_agent' = NewAgent(r)
    /\ requests' = [requests EXCEPT ![r].pc = "return_agent"]
    /\ UNCHANGED <<agent, USER_WALLETS, now, last, recent>>

\* get_agent: `return defi_agent`, which reads the global again
GetAgentReturn(r) ==
    /\ requests[r].pc = "return_agent"
    /\ requests' = [requests EXCEPT ![r].agent = defi_agent, ![r].pc = "process"]
    /\ UNCHANGED <<agent, USER_WALLETS, now, last, recent, defi_agent>>

\* agent.process_whatsapp_message(from_number, message_body) and the reply
\* handed to Twilio
ProcessRequest(r) ==
    /\ requests[r].pc = "process"
    /\ \E res \in {simple_process_whatsapp_message(requests[r].agent, USER_WALLETS,
                                                   requests[r].from_number,
                                                   requests[r].message_body, now)} :
          /\ USER_WALLETS' = res.wallets
          /\ requests' = [requests EXCEPT ![r].pc = "done",
                                          ![r].user_wallet = res.user_wallet,
                                          ![r].response_text = res.reply]
          /\ last' = [NoCall EXCEPT !.op = "process_whatsapp_message",
                                    !.user = requests[r].from_number,
                                    !.arg = requests[r].message_body,
                                    !.reply = res.reply, !.calls = res.calls]
          /\ recent' = IF "save_user_wallet" \in res.calls
                       THEN Observe(requests[r].from_number, requests[r].message_body, res.reply)
                       ELSE recent
    /\ UNCHANGED <<agent, now, defi_agent>>

NextWebhook ==
    \/ \E user \in Users, body \in WebhookMessages : WhatsappWebhook(user, body)
    \/ \E r \in DOMAIN requests : GetAgentTest(r)
    \/ \E r \in DOMAIN requests : GetAgentCreate(r)
    \/ \E r \in DOMAIN requests : GetAgentReturn(r)
    \/ \E r \in DOMAIN requests : ProcessRequest(r)

SpecWebhook == InitWebhook /\ [][NextWebhook]_vars

----------------------------------------------------------------------------
(* The claims *)

\* Exactly '0x' followed by 40 hexadecimal characters.
IsStrictAddress(a) ==
    /\ Len(a) = 42
    /\ SubSeq(a, 1, 2) = "0x"
    /\ \A i \in 3..42 : IsHex(Char(a, i))

\* The messages of the model whose trimmed text is an address.
AddressMessages == {message \in Messages : IsStrictAddress(Strip(message))}

Processed == last.op = "process_whatsapp_message"

\* C1: IntelligentDeFiAgent.extract_intent classifies every message whose
\* trimmed text is exactly 0x + 40 hex characters as wallet_address, with the
\* trimmed message as the only entity (address), whatever keywords or token
\* aliases of other intents the text contains.
C1_AddressOverrideWins ==
    (agent = "IntelligentDeFiAgent" /\ Processed /\ last.arg \in AddressMessages)
        => /\ last.intent = "wallet_address"
           /\ DOMAIN last.data = {"address"}
           /\ last.data["address"] = Strip(last.arg)

\* An address that contains the gas keyword 'fee' was classified.
C1_Witness ==
    /\ agent = "IntelligentDeFiAgent"
    /\ Processed
    /\ last.arg = Addr3
    /\ IntentScore("gas_fees", Lower(Addr3)) > 0
    /\ last.intent = "wallet_address"

\* C2, as stated: in every agent variant's store, saving a valid 42-character
\* 0x-prefixed address a for u and reading u's wallet returns exactly a.
C2_ExactRoundTripEveryAgent ==
    (last.op = "save_user_wallet" /\ IsStrictAddress(last.arg))
        => get_user_wallet(USER_WALLETS, last.user) = last.arg

\* C2, amended: IntelligentDeFiAgent, SimpleDeFiAgent and NeoLinkSpoonAgent
\* return exactly a after saving a; DeFiSpoonAgent rejects an a with letters of
\* both cases that is not its own EIP-55 form (the store is then as it was) and
\* otherwise returns the EIP-55 form of a, equal to a up to the case of letters.
C2_RoundTripByAgent ==
    (last.op = "save_user_wallet" /\ IsStrictAddress(last.arg))
        => IF agent \in VerbatimAgents
           THEN get_user_wallet(USER_WALLETS, last.user) = last.arg
           ELSE IF Lower(last.arg) # last.arg /\ Eip55[Lower(last.arg)] # last.arg
           THEN /\ last.reply = SpoonInvalidFormatText
                /\ get_user_wallet(USER_WALLETS, last.user) =
                      IF recent[last.user].address = None THEN None
                      ELSE to_checksum_address(recent[last.user].address)
           ELSE /\ get_user_wallet(USER_WALLETS, last.user) = Eip55[Lower(last.arg)]
                /\ Lower(get_user_wallet(USER_WALLETS, last.user)) = Lower(last.arg)

\* DeFiSpoonAgent was given a lower-case address and holds another string.
C2_Witness ==
    /\ agent = "DeFiSpoonAgent"
    /\ last.op = "save_user_wallet"
    /\ last.arg = Lower(Addr1)
    /\ get_user_wallet(USER_WALLETS, last.user) # last.arg
    /\ Lower(get_user_wallet(USER_WALLETS, last.user)) = last.arg

\* A candidate that does not start with '0x' or whose length is not 42.
InvalidCandidate(candidate) == Prefix(candidate, 2) # "0x" \/ Len(candidate) # 42

\* C3: save_user_wallet(u, candidate) of IntelligentDeFiAgent and
\* SimpleDeFiAgent, for a candidate that does not start with '0x' or whose
\* length is not 42, returns the invalid-format message and leaves the whole
\* store as it was.
C3_RejectionKeepsStore ==
    [][(/\ agent \in {"IntelligentDeFiAgent", "SimpleDeFiAgent"}
        /\ last'.op = "save_user_wallet"
        /\ InvalidCandidate(last'.arg))
          => (last'.reply = InvalidFormatText /\ USER_WALLETS' = USER_WALLETS)]_vars

\* A user who has a wallet saved a short candidate and was refused.
C3_Witness ==
    /\ agent = "SimpleDeFiAgent"
    /\ last.op = "save_user_wallet"
    /\ last.arg = "0x1234"
    /\ last.reply = InvalidFormatText
    /\ last.user \in DOMAIN USER_WALLETS

\* C4: after any sequence of save_user_wallet calls the store is a mapping
\* from user keys to one entry each, and get_user_wallet(u) is the address of
\* the most recent successful save for u (None when there was none).
C4_LastWriteWins ==
    agent \in VerbatimAgents
        => /\ DOMAIN USER_WALLETS \subseteq Users
           /\ \A u \in Users : get_user_wallet(USER_WALLETS, u) = recent[u].address

\* A user saved two different addresses and reads the second.
C4_Witness ==
    /\ agent = "IntelligentDeFiAgent"
    /\ last.op = "get_user_wallet"
    /\ Cardinality(recent[last.user].saved) = 2
    /\ last.reply = recent[last.user].address

\* C5: no call of process_whatsapp_message removes a session entry: a user
\* who has a saved wallet has one after every later message of any user.
C5_EntriesStay ==
    [][\A u \in Users : u \in DOMAIN USER_WALLETS => u \in DOMAIN USER_WALLETS']_vars

\* Both users have a wallet and the second save came after the first.
C5_Witness ==
    /\ agent = "IntelligentDeFiAgent"
    /\ Processed
    /\ last.intent = "wallet_address"
    /\ DOMAIN USER_WALLETS = Users
    /\ \E u \in Users : USER_WALLETS[u].created_at < USER_WALLETS[last.user].created_at

\* C6, as stated: process_whatsapp_message returns a text for every input
\* and every outcome of the providers.
C6_AlwaysText == Processed => IsText(last.reply)

\* C7: after process_whatsapp_message(u, message) of IntelligentDeFiAgent, for
\* a message whose trimmed text is a full-string address, the session of u
\* holds exactly the trimmed address and the reply is the wallet-saved message.
C7_AddressMessageSaves ==
    (agent = "IntelligentDeFiAgent" /\ Processed /\ last.arg \in AddressMessages)
        => /\ get_user_wallet(USER_WALLETS, last.user) = Strip(last.arg)
           /\ last.reply = WalletSavedText

\* An address sent with blanks around it was saved without them.
C7_Witness ==
    /\ agent = "IntelligentDeFiAgent"
    /\ Processed
    /\ last.arg = "  " \o Addr2 \o "\n"
    /\ get_user_wallet(USER_WALLETS, last.user) = Addr2

\* C8: after any sequence of process_whatsapp_message calls every address in
\* the store is exactly 0x + 40 hexadecimal characters.
C8_StoredAddressesStrict ==
    \A u \in DOMAIN USER_WALLETS : IsStrictAddress(USER_WALLETS[u].wallet_address)

\* A 42-character 0x-prefixed message that is not hexadecimal was handled, and
\* the store holds an address.
C8_Witness ==
    /\ agent = "IntelligentDeFiAgent"
    /\ Processed
    /\ last.arg = NotHex42
    /\ ~InvalidCandidate(last.arg)
    /\ DOMAIN USER_WALLETS # {}

\* The text that asks for a wallet address.
GuidanceText == IF agent = "NeoLinkSpoonAgent" THEN NeoLinkNoWalletText ELSE NoWalletBalanceText

\* C9: a message classified balance_check from a user with no saved wallet is
\* answered with the guidance text; the balance provider is not called and the
\* store is unchanged.
C9_NoWalletBalanceGuidance ==
    [][(/\ last'.op = "process_whatsapp_message"
        /\ last'.intent = "balance_check"
        /\ last'.user \notin DOMAIN USER_WALLETS)
          => /\ last'.reply = GuidanceText
             /\ last'.calls \cap {"check_balance", "check_real_balance"} = {}
             /\ USER_WALLETS' = USER_WALLETS]_vars

\* A user without a wallet asked for the balance while the other user has one.
C9_Witness ==
    /\ Processed
    /\ last.intent = "balance_check"
    /\ last.arg = "check my balance"
    /\ last.user \notin DOMAIN USER_WALLETS
    /\ DOMAIN USER_WALLETS # {}
    /\ last.reply = GuidanceText

SendMessage == "send 0.5 ETH to " \o Addr2

\* C10, as stated: 'send 0.5 ETH to 0x1234...7890' from a user with a saved
\* wallet is classified transfer with amount 0.5 and the recipient, and the
\* reply is a preview with both values and the not-executed disclaimer.
C10_SendIsTransfer ==
    (/\ agent = "IntelligentDeFiAgent"
     /\ Processed
     /\ last.arg = SendMessage
     /\ last.user \in DOMAIN USER_WALLETS)
        => /\ last.intent = "transfer"
           /\ DictGet(last.data, "amount", None) = "0.5"
           /\ DictGet(last.data, "recipient", None) = Addr2
           /\ Contains("0.5", last.reply)
           /\ Contains(Addr2, last.reply)
           /\ Contains(TransferDisclaimer, last.reply)

\* Whether a reply renders a transfer preview (the headline of either agent).
RendersPreview(reply) ==
    IsText(reply)
    /\ (Contains("**Transfer Preparation**", reply) \/ Contains("Transfer Prepared:", reply))

\* The texts that ask for what a transfer lacks.
TransferGuidanceTexts == {NoWalletTransferText, SpoonNoWalletText, SpoonTransferGuidanceText}

\* Whether the call being made is a transfer that lacks the amount, the
\* recipient or the sender's saved wallet.
TransferLacksPart(call) ==
    /\ call.op = "process_whatsapp_message"
    /\ call.intent = "transfer"
    /\ \/ "amount" \notin DOMAIN call.data
       \/ "recipient" \notin DOMAIN call.data
       \/ call.user \notin DOMAIN USER_WALLETS

\* C11, as stated: when the intent is transfer and the amount, the recipient
\* or the sender's saved wallet is missing, the reply is a guidance message
\* naming what is missing and no transfer preview is rendered.
C11_MissingPartsGuidance ==
    [][TransferLacksPart(last')
          => (last'.reply \in TransferGuidanceTexts /\ ~RendersPreview(last'.reply))]_vars

\* C11, amended: a transfer from a user without a saved wallet is answered
\* with the text that asks for the wallet address, and no preview.  With a
\* saved wallet, DeFiSpoonAgent answers a missing amount or recipient with the
\* text that asks for both, and no preview; IntelligentDeFiAgent renders the
\* preview with 'unspecified' for a missing amount and 'Please specify
\* recipient' for a missing recipient.
C11_MissingPartsByAgent ==
    [][TransferLacksPart(last')
          => IF last'.user \notin DOMAIN USER_WALLETS
             THEN /\ last'.reply =
                        IF agent = "DeFiSpoonAgent" THEN SpoonNoWalletText ELSE NoWalletTransferText
                  /\ ~RendersPreview(last'.reply)
             ELSE IF agent = "DeFiSpoonAgent"
             THEN last'.reply = SpoonTransferGuidanceText /\ ~RendersPreview(last'.reply)
             ELSE /\ agent = "IntelligentDeFiAgent"
                  /\ RendersPreview(last'.reply)
                  /\ "amount" \notin DOMAIN last'.data
                        => Contains("Amount: unspecified ", last'.reply)
                  /\ "recipient" \notin DOMAIN last'.data
                        => Contains("To: Please specify recipient", last'.reply)]_vars

\* DeFiSpoonAgent was asked by a user with a saved wallet to send an amount to
\* nobody and answered with the guidance text.
C11_Witness ==
    /\ agent = "DeFiSpoonAgent"
    /\ Processed
    /\ last.intent = "transfer"
    /\ last.arg = "send 0.5"
    /\ "recipient" \notin DOMAIN last.data
    /\ last.user \in DOMAIN USER_WALLETS
    /\ last.reply = SpoonTransferGuidanceText

\* C12: handling a transfer message never executes a transfer: the only
\* external call on the transfer path is the read of the gas price, and the
\* session store is left as it was.
C12_TransferNeverExecutes ==
    [][(last'.op = "process_whatsapp_message" /\ last'.intent = "transfer")
          => (last'.calls \subseteq {"w3.eth.gas_price"} /\ USER_WALLETS' = USER_WALLETS)]_vars

\* A complete transfer was previewed for a user with a saved wallet: the gas
\* price was read and nothing else was called.
C12_Witness ==
    /\ agent = "DeFiSpoonAgent"
    /\ Processed
    /\ last.intent = "transfer"
    /\ last.arg = "send 0.5 ETH to " \o Addr2
    /\ RendersPreview(last.reply)
    /\ last.calls = {"w3.eth.gas_price"}
    /\ last.user \in DOMAIN USER_WALLETS

\* The calls that classify a message with extract_intent.
Classifies(call) ==
    agent = "IntelligentDeFiAgent" /\ call.op \in {"process_whatsapp_message", "extract_intent"}

\* The score of every intent of the table for every message of the model.
Scores ==
    [message \in Messages |->
        [n \in 1..Len(IntentOrder) |-> IntentScore(IntentOrder[n], Strip(Lower(message)))]]

\* The messages in which no intent scores above zero and that are no address.
NoScoreMessages ==
    {message \in Messages \ AddressMessages : \A n \in 1..Len(IntentOrder) : Scores[message][n] = 0}

\* C13, as stated: when no intent scores above zero, extract_intent returns
\* general together with the entities extracted from the raw message: amount
\* from the first numeric substring, recipient from the first embedded address.
C13_GeneralKeepsEntities ==
    (Classifies(last) /\ last.arg \in NoScoreMessages)
        => /\ last.intent = "general"
           /\ last.data = DictOf(None, SearchAmount(last.arg), SearchAddress(last.arg))

\* C13, amended: when no intent scores above zero and the message is not a
\* full-string address, extract_intent returns general with an empty entity
\* dictionary: an amount and a recipient found in the raw message are dropped.
C13_GeneralDropsEntities ==
    (Classifies(last) /\ last.arg \in NoScoreMessages)
        => (last.intent = "general" /\ last.data = EmptyDict)

\* A message that holds a number and an embedded address and no keyword was
\* classified general with no entity.
C13_Witness ==
    /\ Classifies(last)
    /\ last.arg = Addr2 \o "1"
    /\ last.arg \in NoScoreMessages
    /\ SearchAmount(last.arg) = "0"
    /\ SearchAddress(last.arg) = Addr2
    /\ last.intent = "general"
    /\ last.data = EmptyDict

\* Whether the lower-cased message contains a keyword or a token alias of any
\* intent.
Mentions(message) ==
    \E n \in 1..Len(IntentOrder) :
        \/ ContainsAny(Keywords(IntentOrder[n]), Lower(message))
        \/ ContainsAny(Tokens(IntentOrder[n]), Lower(message))

\* The messages that are no address and contain no keyword and no alias.
PlainMessages == {message \in Messages \ AddressMessages : ~Mentions(message)}

\* C14: every message that is not a full-string address and contains no
\* keyword and no token alias of any intent is classified general and handed
\* to the LLM fallback handler, and to no other handler.
C14_PlainMessageToLLM ==
    (agent = "IntelligentDeFiAgent" /\ Processed /\ last.arg \in PlainMessages)
        => (last.intent = "general" /\ last.calls = {"get_ai_response"})

\* 'purple elephant migration patterns' was answered by the LLM handler.
C14_Witness ==
    /\ agent = "IntelligentDeFiAgent"
    /\ Processed
    /\ last.arg = "purple elephant migration patterns"
    /\ last.arg \in PlainMessages
    /\ last.calls = {"get_ai_response"}
    /\ last.reply = LLMContentText

\* The place of an intent in the registration order (0: not registered).
Registered(intent) ==
    IF \E n \in 1..Len(IntentOrder) : IntentOrder[n] = intent
    THEN CHOOSE n \in 1..Len(IntentOrder) : IntentOrder[n] = intent
    ELSE 0

\* Whether the intent returned for message has the greatest score of all
\* intents and is, of the intents of that score, the one registered first;
\* general is returned when nothing scores.
MaximalFirstRegistered(message, intent) ==
    IF intent = "general"
    THEN \A n \in 1..Len(IntentOrder) : Scores[message][n] = 0
    ELSE /\ Registered(intent) > 0
         /\ \A n \in 1..Len(IntentOrder) :
               \/ Scores[message][n] < Scores[message][Registered(intent)]
               \/ /\ Scores[message][n] = Scores[message][Registered(intent)]
                  /\ Registered(intent) <= n

\* C15, as stated: extract_intent returns an intent whose score is maximal
\* among all intents, and of several intents of the maximal score the one
\* registered first.
C15_MaximalScoreWins ==
    Classifies(last) => MaximalFirstRegistered(last.arg, last.intent)

\* C15, amended: for a message that is not a full-string wallet address,
\* extract_intent returns an intent whose score is maximal among all intents
\* (general when nothing scores), and of several intents of the maximal score
\* the one registered first; a full-string wallet address is classified
\* wallet_address whatever the other intents score.
C15_MaximalScoreUnlessAddress ==
    Classifies(last)
        => IF last.arg \in AddressMessages THEN last.intent = "wallet_address"
           ELSE MaximalFirstRegistered(last.arg, last.intent)

\* 'hello' scores 1 for help and 1 for greeting and was classified help, which
\* is registered before greeting.
C15_Witness ==
    /\ Classifies(last)
    /\ last.arg = "hello"
    /\ Scores[last.arg][Registered("help")] = 1
    /\ Scores[last.arg][Registered("greeting")] = 1
    /\ Registered("help") < Registered("greeting")
    /\ last.intent = "help"

PriceFailure(call) ==
    /\ agent = "NeoLinkSpoonAgent"
    /\ call.op = "process_whatsapp_message"
    /\ "get_real_price" \in call.calls
    /\ call.env.cg.status \in {"raises", "status_not_200"}

\* C17: when the price provider throws, times out or returns a non-success
\* status, the price handler returns its apologetic text, the session store is
\* unchanged, and the next message of any user is answered as the handlers
\* answer it in that unchanged store.
C17_PriceFailureApology ==
    [][/\ PriceFailure(last')
            => /\ last'.reply = NoPriceDataText(last'.data["token"])
               /\ USER_WALLETS' = USER_WALLETS
       /\ (PriceFailure(last) /\ last'.op = "process_whatsapp_message")
            => last'.reply =
                  neolink_process_whatsapp_message(USER_WALLETS, last'.user, last'.arg, now,
                                                   last'.env).reply]_vars

\* The price request of a user failed while a wallet was saved, and the reply
\* is the text that says no price data was found.
C17_Witness ==
    /\ PriceFailure(last)
    /\ last.arg = "ETH price"
    /\ last.env.cg.status = "raises"
    /\ last.reply = NoPriceDataText("ETH")
    /\ DOMAIN USER_WALLETS # {}

\* The tiers the priority order gives: those of the first source, in the order
\* oracle API, fallback API, node, that answers; the constants when none does.
PriorityTiers(env) ==
    IF env.etherscan.status = "ok" THEN env.etherscan.tiers
    ELSE IF env.metaswap.status = "ok" THEN env.metaswap.tiers
    ELSE IF env.chain.status = "connected"
    THEN [safe |-> (8 * env.chain.gas_gwei) \div 10, standard |-> env.chain.gas_gwei,
          fast |-> (12 * env.chain.gas_gwei) \div 10]
    ELSE HardcodedTiers

\* C18, as stated: get_gas_price returns the three tiers of the
\* highest-priority source that succeeds (oracle API, fallback API, on-chain
\* estimate), and the constants 12/15/20 only after all of them have failed.
C18_PriorityOrder ==
    (Processed /\ "get_real_gas_info" \in last.calls)
        => Contains("Safe: " \o NatToStr(PriorityTiers(last.env).safe)
                    \o " Gwei Standard: " \o NatToStr(PriorityTiers(last.env).standard)
                    \o " Gwei Fast: " \o NatToStr(PriorityTiers(last.env).fast) \o " Gwei",
                    last.reply)

RECURSIVE StripTrailing(_, _)
\* s.rstrip(c)
StripTrailing(s, c) ==
    IF Len(s) > 0 /\ Char(s, Len(s)) = c THEN StripTrailing(SubSeq(s, 1, Len(s) - 1), c) ELSE s

\* The rendering by magnitude of a price given in units of 10^-4 dollar:
\* thousands separators and 2 decimals from 1000, 4 decimals from 1, and below
\* 1 up to 8 decimals with the trailing zeros stripped.
TieredPrice(price) ==
    IF price >= 1000 * Pow10(4) THEN "$" \o FormatFixed(price, 4, 2, TRUE)
    ELSE IF price >= Pow10(4) THEN "$" \o FormatFixed(price, 4, 4, FALSE)
    ELSE "$" \o StripTrailing(StripTrailing(FormatFixed(price, 4, 8, FALSE), "0"), ".")

\* C19, as stated: every price reply renders the price by magnitude, the
\* boundary values 1 and 1000 included.
C19_TieredPriceFormat ==
    (Processed /\ "get_real_price" \in last.calls /\ last.env.cg.status = "ok")
        => Contains("Current Price: " \o TieredPrice(last.env.cg.usd) \o " 24h Change:",
                    last.reply)

\* Messages with a balance keyword and the ETH alias.
EthBalanceMessages == {"what's my ETH balance", "how much ETH do I have"}

\* C20: for a user with a saved wallet, a message with a balance keyword and
\* the ETH alias is classified balance_check with token ETH, and the reply
\* shows a prefix and a suffix of the saved address, never the whole address.
C20_EthBalanceShortensAddress ==
    (/\ agent = "IntelligentDeFiAgent"
     /\ Processed
     /\ last.arg \in EthBalanceMessages
     /\ last.user \in DOMAIN USER_WALLETS)
        => /\ last.intent = "balance_check"
           /\ DictGet(last.data, "token", None) = "ETH"
           /\ IsText(last.reply)
           /\ Contains(Prefix(USER_WALLETS[last.user].wallet_address, 10) \o "..."
                       \o Suffix(USER_WALLETS[last.user].wallet_address, 4), last.reply)
           /\ ~Contains(USER_WALLETS[last.user].wallet_address, last.reply)

\* A user who saved the address of test_agent asked for the ETH balance.
C20_Witness ==
    /\ agent = "IntelligentDeFiAgent"
    /\ Processed
    /\ last.arg = "what's my ETH balance"
    /\ last.user \in DOMAIN USER_WALLETS
    /\ USER_WALLETS[last.user].wallet_address = Addr1
    /\ Contains("0x742d35Cc...d8e8", last.reply)
\* Whether the thread of request r runs process_whatsapp_message in this step.
Processes(r) == r \in DOMAIN requests /\ requests[r].pc = "process" /\ requests'[r].pc = "done"

\* C21: when messages of several users are processed in parallel, the session
\* store behaves as if its saves and reads were executed one at a time: no
\* successful save is lost (every user's entry holds the address of that
\* user's latest successful save), a save changes the sender's entry only, and
\* get_user_wallet(u) returns the address of u's latest successful save, never
\* one saved for another user and never an entry that lacks a field.
C21_StoreOneAtATime ==
    [][/\ \A u \in Users :
             /\ get_user_wallet(USER_WALLETS', u) = recent'[u].address
             /\ u \in DOMAIN USER_WALLETS'
                   => DOMAIN USER_WALLETS'[u] = {"wallet_address", "created_at"}
       /\ \A r \in DOMAIN requests :
             Processes(r)
                => /\ \A v \in Users \ {requests[r].from_number} :
                         /\ v \in DOMAIN USER_WALLETS' <=> v \in DOMAIN USER_WALLETS
                         /\ v \in DOMAIN USER_WALLETS => USER_WALLETS'[v] = USER_WALLETS[v]
                   /\ IF is_wallet_address(requests[r].message_body)
                      THEN get_user_wallet(USER_WALLETS', requests[r].from_number)
                              = requests[r].message_body
                      ELSE /\ USER_WALLETS' = USER_WALLETS
                           /\ requests'[r].user_wallet = recent[requests[r].from_number].address
                           /\ requests'[r].user_wallet
                                 \in {None} \cup recent[requests[r].from_number].saved]_vars

\* Two requests of two users were in flight together: the first stored its
\* address after the second had arrived, the second stored its own, and both
\* entries are in the store.
C21_Witness ==
    /\ agent = "SimpleDeFiAgent"
    /\ Len(requests) = 2
    /\ requests[1].pc = "done"
    /\ requests[2].pc = "done"
    /\ requests[1].from_number # requests[2].from_number
    /\ requests[1].message_body = Addr1
    /\ requests[2].message_body = Addr2
    /\ DOMAIN USER_WALLETS = Users
    /\ USER_WALLETS[requests[1].from_number].created_at = 2
    /\ USER_WALLETS[requests[1].from_number].wallet_address = Addr1
    /\ USER_WALLETS[requests[2].from_number].wallet_address = Addr2
\* The intents whose replies are static or templated text.
StaticIntents == {"defi_info", "help", "greeting", "thanks"}

\* An address that has the first 10 and the last 4 characters of Addr1 and
\* other characters between them.
Addr1Alike == Prefix(Addr1, 10) \o "0000000000000000000000000000" \o Suffix(Addr1, 4)

\* Addresses a sender may have saved.
TrialAddresses == {Addr1, Addr2, Addr3, Addr1Alike}

\* The store in which the address of user's entry, if there is one, is a.
WithAddress(wallets, user, a) ==
    IF user \in DOMAIN wallets
    THEN [wallets EXCEPT ![user] = [wallet_address |-> a, created_at |-> @.created_at]]
    ELSE wallets

\* The reply the last message gets in the store in which the sender's saved
\* address, if any, is a.
ReplyWithAddress(a) ==
    process_whatsapp_message(WithAddress(USER_WALLETS, last.user, a), last.user, last.arg,
                             now, last.env.llm).reply

\* C22, as stated: the replies for the intents defi_info, help, greeting and
\* thanks depend on the session only through whether the sender has a saved
\* wallet: the same message gets the same reply whatever the saved address is.
C22_StaticRepliesPresenceOnly ==
    (agent = "IntelligentDeFiAgent" /\ Processed /\ last.intent \in StaticIntents)
        => \A a \in TrialAddresses : ReplyWithAddress(a) = last.reply

\* C22, amended: the replies for defi_info, help and thanks depend on the
\* session only through whether the sender has a saved wallet; the greeting
\* reply of a sender with a saved wallet shows the first 10 and the last 4
\* characters of the saved address, and depends on the address through these
\* characters only.
C22_StaticRepliesExceptGreeting ==
    (agent = "IntelligentDeFiAgent" /\ Processed /\ last.intent \in StaticIntents)
        => IF last.intent = "greeting" /\ last.user \in DOMAIN USER_WALLETS
           THEN LET saved == USER_WALLETS[last.user].wallet_address
                IN  /\ Contains(Prefix(saved, 10) \o "..." \o Suffix(saved, 4), last.reply)
                    /\ ~Contains(saved, last.reply)
                    /\ \A a \in TrialAddresses :
                          (Prefix(a, 10) = Prefix(saved, 10) /\ Suffix(a, 4) = Suffix(saved, 4))
                              <=> ReplyWithAddress(a) = last.reply
           ELSE \A a \in TrialAddresses : ReplyWithAddress(a) = last.reply

\* A sender who saved the address of test_agent sent 'yo', which is classified
\* greeting, and the reply shows the ends of the address; with another address
\* of the same ends the reply is the same, with a third address it differs.
C22_Witness ==
    /\ agent = "IntelligentDeFiAgent"
    /\ Processed
    /\ last.arg = "yo"
    /\ last.intent = "greeting"
    /\ last.user \in DOMAIN USER_WALLETS
    /\ USER_WALLETS[last.user].wallet_address = Addr1
    /\ Contains("0x742d35Cc...d8e8", last.reply)
    /\ ReplyWithAddress(Addr1Alike) = last.reply
    /\ ReplyWithAddress(Addr2) # last.reply
\* The elements of a list.
Range(list) == {list[k] : k \in 1..Len(list)}

\* The number of an intent's keywords contained in text plus twice the number
\* of its token aliases contained in text.
ContainedCount(intent, text) ==
    Cardinality({keyword \in Range(Keywords(intent)) : Contains(keyword, text)})
    + 2 * Cardinality({alias \in Range(Tokens(intent)) : Contains(alias, text)})

\* ContainedCount of every intent of the table for every message of the model.
Counted ==
    [message \in Messages |->
        [n \in 1..Len(IntentOrder) |-> ContainedCount(IntentOrder[n], Strip(Lower(message)))]]

\* C23: for every message that is not a full-string address and every
\* registered intent, the score extract_intent computes is the number of the
\* intent's keywords contained in the lower-cased trimmed message plus twice
\* the number of the intent's token aliases contained in it (and the intent
\* returned is the first of those for which this number is greatest).
C23_ScoreCountsKeywordsAndAliases ==
    (Classifies(last) /\ last.arg \notin AddressMessages)
        => /\ \A n \in 1..Len(IntentOrder) : Scores[last.arg][n] = Counted[last.arg][n]
           /\ \A n \in 1..Len(IntentOrder) :
                 LET mine == IF last.intent = "general" THEN 0
                             ELSE Counted[last.arg][Registered(last.intent)]
                 IN  \/ Counted[last.arg][n] < mine
                     \/ /\ Counted[last.arg][n] = mine
                        /\ (mine = 0 \/ Registered(last.intent) <= n)

\* 'what's my ETH balance' scores 4 for balance_check (the keywords 'balance'
\* and 'eth balance', the alias 'eth') and 2 for price_check (the alias).
C23_Witness ==
    /\ Classifies(last)
    /\ last.arg = "what's my ETH balance"
    /\ Scores[last.arg][Registered("balance_check")] = 4
    /\ Scores[last.arg][Registered("price_check")] = 2
    /\ last.intent = "balance_check"
\* The greeting messages of test_agent.
GreetingMessages == {"hello", "hi there"}

\* C24, as stated: a message that is just a greeting word of the greeting
\* keyword list ('hello', 'hi there') is classified greeting and answered with
\* the greeting reply, for users with and without a saved wallet.
C24_GreetingWordIsGreeting ==
    (agent = "IntelligentDeFiAgent" /\ Processed /\ last.arg \in GreetingMessages)
        => /\ last.intent = "greeting"
           /\ last.reply = GreetingText(get_user_wallet(USER_WALLETS, last.user))
\* The aliases of the token table contained in the lower-cased trimmed message.
ContainedAliases(message) ==
    {k \in 1..Len(COMPREHENSIVE_TOKEN_MAPPING) :
        Contains(COMPREHENSIVE_TOKEN_MAPPING[k][1], Strip(Lower(message)))}

\* The symbol of the longest alias of the token table contained in the message.
LongestAliasSymbol(message) ==
    LET k == CHOOSE i \in ContainedAliases(message) :
                 \A j \in ContainedAliases(message) :
                     Len(COMPREHENSIVE_TOKEN_MAPPING[j][1]) <= Len(COMPREHENSIVE_TOKEN_MAPPING[i][1])
    IN  COMPREHENSIVE_TOKEN_MAPPING[k][2]

\* C25, as stated: extract_token_symbol prefers the longer alias when several
\* aliases of the token table are contained in the message: a message with
\* 'bitcoin cash' resolves to BCH rather than BTC, and the returned symbol is
\* that of the longest contained alias.
C25_LongestAliasWins ==
    (/\ agent = "NeoLinkSpoonAgent"
     /\ Processed
     /\ last.intent # "wallet_address"
     /\ ContainedAliases(last.arg) # {})
        => DictGet(last.data, "token", None) = LongestAliasSymbol(last.arg)

\* C26, as stated: in NeoLinkSpoonAgent.process_whatsapp_message every message
\* that is not a full-string address and contains one of the gas phrases
\* 'gas fee', 'gas fees', 'gas price', 'gwei' or 'network fee' is answered by
\* the gas-fee handler get_real_gas_info.
C26_GasPhraseToGasHandler ==
    (/\ agent = "NeoLinkSpoonAgent"
     /\ Processed
     /\ last.arg \notin AddressMessages
     /\ ContainsAny(GasPhrases, Strip(Lower(last.arg))))
        => last.calls = {"get_real_gas_info"}
\* C27: processing a message from user u changes at most u's own session
\* entry, and changes it only when the message is a full-string wallet
\* address: every other intent's handler, and every failure path, leaves the
\* whole session store unchanged, and no message from u changes the entry of
\* another user.
C27_OnlyOwnEntryOnlyByAddress ==
    [][last'.op = "process_whatsapp_message"
          => /\ \A v \in Users \ {last'.user} :
                   /\ v \in DOMAIN USER_WALLETS' <=> v \in DOMAIN USER_WALLETS
                   /\ v \in DOMAIN USER_WALLETS => USER_WALLETS'[v] = USER_WALLETS[v]
             /\ ~IsStrictAddress(Strip(last'.arg)) => USER_WALLETS' = USER_WALLETS]_vars

\* The third message of a run was an address: it wrote the sender's entry,
\* and the entry the other user had saved before is still in the store.
C27_Witness ==
    /\ agent = "IntelligentDeFiAgent"
    /\ Processed
    /\ last.arg = Addr3
    /\ DOMAIN USER_WALLETS = Users
    /\ USER_WALLETS[last.user].wallet_address = Addr3
    /\ USER_WALLETS[last.user].created_at = 2
    /\ \E v \in Users \ {last.user} : USER_WALLETS[v].created_at < 2
\* Whether s holds an address and no digit before it.
AddressBeforeAnyDigit(s) ==
    \E i \in 1..Len(s) : AddressAt(s, i) /\ \A j \in 1..(i - 1) : ~IsDigit(Char(s, j))

\* C28: whenever entity extraction yields a recipient it also yields an
\* amount (the '0' of the address's '0x' matches the amount pattern); for a
\* message with an embedded address and no digit before it the amount is '0';
\* a transfer with a recipient is never reported as lacking an amount.
C28_RecipientImpliesAmount ==
    (last.op \in {"process_whatsapp_message", "extract_intent"} /\ "recipient" \in DOMAIN last.data)
        => /\ "amount" \in DOMAIN last.data
           /\ AddressBeforeAnyDigit(last.arg) => last.data["amount"] = "0"
           /\ (Processed /\ last.intent = "transfer")
                 => /\ last.reply # SpoonTransferGuidanceText
                    /\ ~Contains("Amount: unspecified", last.reply)

\* 'pay' and an address, from a user with a saved wallet: the recipient was
\* extracted, the amount is '0' and the preview shows it.
C28_Witness ==
    /\ agent = "IntelligentDeFiAgent"
    /\ Processed
    /\ last.arg = "pay " \o Addr2
    /\ last.intent = "transfer"
    /\ last.data["recipient"] = Addr2
    /\ last.data["amount"] = "0"
    /\ last.user \in DOMAIN USER_WALLETS
    /\ Contains("Amount: 0 ETH", last.reply)
\* The number of an intent's keywords contained in the lower-cased trimmed
\* message, and twice the number of its token aliases contained in it.
KeywordCount(intent, message) ==
    Cardinality({keyword \in Range(Keywords(intent)) : Contains(keyword, Strip(Lower(message)))})

AliasScore(intent, message) ==
    2 * Cardinality({alias \in Range(Tokens(intent)) : Contains(alias, Strip(Lower(message)))})

\* The keyword counts and the alias scores of balance_check and price_check
\* for every message of the model.
BalanceAndPrice ==
    [message \in Messages |->
        [balance_keywords |-> KeywordCount("balance_check", message),
         price_keywords |-> KeywordCount("price_check", message),
         balance_aliases |-> AliasScore("balance_check", message),
         price_aliases |-> AliasScore("price_check", message)]]

\* C29: balance_check and price_check receive the same token-alias score for
\* every message, so extract_intent selects price_check over balance_check
\* only when strictly more price keywords than balance keywords are contained
\* in the message; on equal keyword counts balance_check wins.
C29_PriceNeedsMoreKeywords ==
    (Classifies(last) /\ last.arg \notin AddressMessages)
        => LET counts == BalanceAndPrice[last.arg]
           IN  /\ counts.balance_aliases = counts.price_aliases
               /\ last.intent = "price_check" => counts.price_keywords > counts.balance_keywords
               /\ (/\ last.intent \in {"balance_check", "price_check"}
                   /\ counts.price_keywords = counts.balance_keywords)
                     => last.intent = "balance_check"

\* 'ethereum' holds two aliases and no keyword: both intents score 4 and
\* balance_check was returned.
C29_Witness ==
    /\ Classifies(last)
    /\ last.arg = "ethereum"
    /\ BalanceAndPrice[last.arg].price_aliases = 4
    /\ BalanceAndPrice[last.arg].price_keywords = 0
    /\ BalanceAndPrice[last.arg].balance_keywords = 0
    /\ Scores[last.arg][Registered("price_check")] = Scores[last.arg][Registered("balance_check")]
    /\ last.intent = "balance_check"
\* The agent instances that serve or served a request.
Serving == {requests[r].agent : r \in DOMAIN requests} \ {None}

\* C30: a wallet saved while handling one webhook request is returned by
\* get_user_wallet in every later request of the same user, also when
\* concurrent first requests raced in get_agent and each created its own
\* agent instance: what get_user_wallet returns for a user is the user's
\* latest saved address through every instance, and it is what a request
\* reads whichever instance serves it.
C30_SessionSharedByInstances ==
    [][/\ \A self \in Serving', u \in Users :
             get_user_wallet(USER_WALLETS', SessionKey(self, u)) = recent'[u].address
       /\ \A r \in DOMAIN requests :
             (Processes(r) /\ ~is_wallet_address(requests[r].message_body))
                => requests'[r].user_wallet = recent[requests[r].from_number].address]_vars

\* Two first requests of one user raced in get_agent and are served by two
\* instances; the one saved an address and the other, processed later, was
\* answered with the balance of that address.
C30_Witness ==
    /\ Len(requests) = 2
    /\ requests[1].from_number = requests[2].from_number
    /\ requests[1].agent # None
    /\ requests[2].agent # None
    /\ requests[1].agent # requests[2].agent
    /\ requests[2].message_body = Addr1
    /\ requests[2].pc = "done"
    /\ requests[1].message_body = "check my balance"
    /\ requests[1].pc = "done"
    /\ requests[1].user_wallet = Addr1
    /\ Contains("Balance for 0x742d35Cc...d8e8", requests[1].response_text)

====
